---- MODULE Spec2Model ----
(***************************************************************************)
(* Shadecaster: silhouette image -> polar cutout mask -> lampshade mesh -> *)
(* STL.  A model of src/src/lib/stl-generator.ts (mesh builder and STL     *)
(* serializer), src/src/lib/image-processor.ts (thresholding and polar     *)
(* resampling) and the edge counter of the STL inspection tool.            *)
(*                                                                         *)
(* Numbers.  Every length and every user-facing number is a fixed-point    *)
(* integer with Scale units per 1.0 (a length of 1.6 mm is 1600); a        *)
(* non-finite number (NaN, +/-Infinity) is the reserved value NaN.         *)
(* A vertex is <<radius, angle index, z>>: polarToCartesian is injective   *)
(* on (radius > 0, angle mod 2*pi), so two vertices have the same          *)
(* quantized position exactly when these triples agree.                    *)
(***************************************************************************)
EXTENDS Integers, Sequences, FiniteSets, Bags, TLC

VARIABLES
  cutout,             \* exportSTL argument: the CutoutMask [data, columns, rows]
  params,             \* exportSTL argument: the GeometryParams record
  format,             \* exportSTL argument: "binary" | "ascii"
  outcome,            \* what exportSTL did: not run, thrown error, or returned Blob
  remembered,         \* an exportSTL call made before this one: arguments and outcome
  image,              \* the picture on the canvas (an ImageData)
  angularResolutionInput,  \* ProcessingParams.angularResolution, as set by the caller
  thresholdInput,     \* ProcessingParams.threshold, as set by the caller
  processed,          \* the last processImage call: its arguments and what it did
  previous,           \* the processImage call before that one
  facet,              \* calculateNormal arguments: the vertices <<v1, v2, v3>>
  normal,             \* what calculateNormal returned for them
  state,              \* main.ts state: image, mask, fileName
  processingTimeout,  \* main.ts processingTimeout: a timer id, or 0 for null
  timers,             \* the window's live timers: id -> milliseconds until due
  domInputs,          \* the values of the angular-resolution and threshold inputs
  geometryInputs,     \* the values of the six number inputs of the lamp's dimensions
  downloadVisible,    \* the download button is not hidden
  loads,              \* the uploads whose image is still loading
  burst,              \* the range input events since the last reset and their runs
  mesh,               \* generateSTL argument: a list of triangles of <<x, y, z>> vertices
  stlBuffer,          \* the ArrayBuffer generateSTL returned for it
  readBack            \* what readBinarySTL got from that buffer

exportVars == <<cutout, params, format, outcome, remembered>>

imageVars == <<image, angularResolutionInput, thresholdInput, processed, previous>>

normalVars == <<facet, normal>>

uiVars ==
  <<state, processingTimeout, timers, domInputs, geometryInputs, downloadVisible,
    loads, burst>>

stlVars == <<mesh, stlBuffer, readBack>>

vars == <<exportVars, imageVars, normalVars, uiVars, stlVars>>

(***************************************************************************)
(* Bounds of the model                                                     *)
(***************************************************************************)
MaxColumns == 3
MaxRows == 4
MaxCutouts == 2
MaxCalls == 2
MaxTimers == 2
MaxTriangles == 2

Scale == 10 * 10 * 10

Max(a, b) == IF a >= b THEN a ELSE b
Min(a, b) == IF a <= b THEN a ELSE b
Abs(a) == IF a < 0 THEN -a ELSE a

\* the non-finite numbers, outside the range of every finite one here
NaN == -(2^30)

\* Number.isFinite
IsFinite(v) == v # NaN

\* Math.round on a fixed-point number: nearest integer, halves towards +inf
Round(v) == (v + Scale \div 2) \div Scale

\* clamp(value, min, max) of lib/utils
clamp(value, lo, hi) == Min(hi, Max(lo, value))

\* ss[lo] \o ... \o ss[hi]
RECURSIVE FlattenRange(_, _, _)
FlattenRange(ss, lo, hi) ==
  IF lo > hi THEN <<>>
  ELSE IF lo = hi THEN ss[lo]
  ELSE FlattenRange(ss, lo, (lo + hi) \div 2) \o FlattenRange(ss, (lo + hi) \div 2 + 1, hi)

Flatten(ss) == FlattenRange(ss, 1, Len(ss))

\* the concatenation of F[0], F[1], ..., F[n-1]: one loop of n iterations
Loop(n, F) == Flatten([i \in 1..n |-> F[i - 1]])

(***************************************************************************)
(* stl-generator.ts: triangles                                             *)
(***************************************************************************)
addTriangle(v1, v2, v3) == << <<v1, v2, v3>> >>

addQuad(v1, v2, v3, v4) == addTriangle(v1, v2, v3) \o addTriangle(v1, v3, v4)

\* angle is an index in units of angleStep = 2*pi/columns; index columns is
\* the angle 2*pi, whose sine normalizeZero turns into 0, so it is index 0.
polarToCartesian(columns, radius, angle, z) ==
  <<radius, IF radius = 0 THEN 0 ELSE angle % columns, z>>

(***************************************************************************)
(* validateGeometryParams: the thrown message, or "ok"                     *)
(***************************************************************************)
ParamNames == {"domeDiameter", "domeHeight", "wallThickness", "wallHeight",
               "ledMountDiameter", "ledMountHeight", "pillarCount"}

\* the two consistency tests (stl-generator.ts 89-96), radius = domeDiameter / 2
wallTooThick(p) == 2 * p.wallThickness >= p.domeDiameter

\* variant: the tea light test with > for >=
teaLightTooWideStrict(p) == p.ledMountDiameter + 2 * p.wallThickness > p.domeDiameter

teaLightTooWide(p) == p.ledMountDiameter + 2 * p.wallThickness >= p.domeDiameter

validateGeometryParams(p) ==
  IF \E k \in ParamNames : ~IsFinite(p[k])
    THEN "Geometry parameters must be valid numbers."
  ELSE IF p.domeDiameter <= 0 \/ p.domeHeight <= 0
    THEN "Dome dimensions must be positive."
  ELSE IF p.wallThickness <= 0
    THEN "Wall thickness must be greater than 0."
  ELSE IF p.wallHeight <= 0
    THEN "Wall height must be greater than 0."
  ELSE IF p.ledMountDiameter <= 0 \/ p.ledMountHeight <= 0
    THEN "Tea light mount dimensions must be positive."
  ELSE IF p.pillarCount < 3 * Scale
    THEN "Pillar count must be at least 3."
  ELSE IF wallTooThick(p)
    THEN "Wall thickness must be smaller than the dome radius."
  ELSE IF teaLightTooWide(p)
    THEN "Tea light hole must be smaller than the dome diameter."
  ELSE "ok"

(***************************************************************************)
(* generateGeometry: derived dimensions (stl-generator.ts 105-128)         *)
(***************************************************************************)
outerRadiusOf(p) == p.domeDiameter \div 2
innerRadiusOf(p) == outerRadiusOf(p) - p.wallThickness
baseThicknessOf(p) == p.wallThickness
wallTopOf(p) == baseThicknessOf(p) + p.wallHeight
domeTopOf(p) == wallTopOf(p) + p.domeHeight
teaLightRadiusOf(p) == p.ledMountDiameter \div 2
clearanceOf(p) == Max((4 * Scale) \div 10, p.wallThickness \div 4)
pocketRadiusOf(p) == teaLightRadiusOf(p) + clearanceOf(p)
lipWidthOf(p) ==
  Min(Max((3 * p.wallThickness) \div 2, 2 * Scale), teaLightRadiusOf(p) \div 4)
innerHoleMaxOf(p) == Max(innerRadiusOf(p) - p.wallThickness, p.wallThickness)
innerHoleRadiusOf(p) ==
  Min(Max(teaLightRadiusOf(p) - lipWidthOf(p), p.wallThickness), innerHoleMaxOf(p))
pocketDepthMaxOf(p) == Max(p.domeHeight - p.wallThickness, p.wallThickness)
pocketDepthOf(p) == clamp(p.ledMountHeight, p.wallThickness, pocketDepthMaxOf(p))
pocketBottomOf(p) == domeTopOf(p) - pocketDepthOf(p)
innerDomeHeightOf(p) == Max(p.domeHeight - pocketDepthOf(p), 0)
openingRadiusOf(p) == pocketRadiusOf(p)
domeShellThicknessOf(p) == p.wallThickness
domeOuterTopRadiusOf(p) == openingRadiusOf(p) + domeShellThicknessOf(p)

(***************************************************************************)
(* pillarColumns (stl-generator.ts 134-150).  Angles are integers with     *)
(* TurnOf units to the full turn 2*pi, chosen so that every column centre  *)
(* and every pillar centre is exact; the code's epsilon of 1e-6 rad is     *)
(* below one unit and only makes the comparison at equality come out true. *)
(***************************************************************************)
pillarCountOf(p) == Max(3, Round(p.pillarCount))
TurnOf(columns, p) == 80 * columns * pillarCountOf(p)
pillarStepOf(columns, p) == TurnOf(columns, p) \div pillarCountOf(p)

\* wallThickness / max(innerRadius, epsilon) radians, in angle units
\* (2*pi = 6.2832; a width beyond the full turn is cut to it, as Math.min
\* with pillarStep does next)
minPillarWidthOf(columns, p) ==
  LET rad == Min((p.wallThickness * 10000) \div Max(innerRadiusOf(p), 1), 62832)
  IN  (rad * TurnOf(columns, p)) \div 62832

pillarWidthOf(columns, p) ==
  LET pillarStep == pillarStepOf(columns, p)
      targetPillarWidth == pillarStep \div 4
  IN  Min(pillarStep, Max(targetPillarWidth, minPillarWidthOf(columns, p)))

pillarColumns(columns, p) ==
  [col \in 0..(columns - 1) |->
    LET turn == TurnOf(columns, p)
        pillarStep == pillarStepOf(columns, p)
        angle == ((2 * col + 1) * turn) \div (2 * columns)
        normalized == (angle + turn) % turn
        pillarIndex ==
          ((2 * normalized + pillarStep) \div (2 * pillarStep)) % pillarCountOf(p)
        center == pillarIndex * pillarStep
        delta == Abs(normalized - center)
        wrapped == Min(delta, turn - delta)
    IN  2 * wrapped <= pillarWidthOf(columns, p)]

\* variant: the mask read as "material present"
isSolidWhereMarked(c, p, row, col) ==
  \/ row = 0
  \/ row = c.rows - 1
  \/ pillarColumns(c.columns, p)[col]
  \/ c.data[row][col]

\* variant: the end rows read from the mask like the others
isSolidAsSampled(c, p, row, col) ==
  \/ pillarColumns(c.columns, p)[col]
  \/ ~(c.data[row][col])

\* isSolid (stl-generator.ts 152-153): a cell is wall unless the mask marks
\* a cutout there
isSolid(c, p, row, col) ==
  \/ row = 0
  \/ row = c.rows - 1
  \/ pillarColumns(c.columns, p)[col]
  \/ ~(c.data[row][col])

\* caps between a solid cell and an open neighbour
addRadialFace(c, p, angle, zBottom, zTop, flip) ==
  LET outerBottom == polarToCartesian(c.columns, outerRadiusOf(p), angle, zBottom)
      outerTop == polarToCartesian(c.columns, outerRadiusOf(p), angle, zTop)
      innerTop == polarToCartesian(c.columns, innerRadiusOf(p), angle, zTop)
      innerBottom == polarToCartesian(c.columns, innerRadiusOf(p), angle, zBottom)
  IN  IF flip THEN addQuad(outerBottom, innerBottom, innerTop, outerTop)
              ELSE addQuad(outerBottom, outerTop, innerTop, innerBottom)

addHorizontalFace(c, p, z, angle1, angle2, flip) ==
  LET outer1 == polarToCartesian(c.columns, outerRadiusOf(p), angle1, z)
      outer2 == polarToCartesian(c.columns, outerRadiusOf(p), angle2, z)
      inner2 == polarToCartesian(c.columns, innerRadiusOf(p), angle2, z)
      inner1 == polarToCartesian(c.columns, innerRadiusOf(p), angle1, z)
  IN  IF flip THEN addQuad(outer1, inner1, inner2, outer2)
              ELSE addQuad(outer1, outer2, inner2, inner1)

\* base: the loop at stl-generator.ts 187-214, one iteration
baseColumn(c, p, col) ==
  LET n == c.columns
      angle1 == col
      angle2 == col + 1
      centerBottom == <<0, 0, 0>>
      centerTop == <<0, 0, baseThicknessOf(p)>>
      outerBottom1 == polarToCartesian(n, outerRadiusOf(p), angle1, 0)
      outerBottom2 == polarToCartesian(n, outerRadiusOf(p), angle2, 0)
      innerTop1 == polarToCartesian(n, innerRadiusOf(p), angle1, baseThicknessOf(p))
      innerTop2 == polarToCartesian(n, innerRadiusOf(p), angle2, baseThicknessOf(p))
      outerTop1 == polarToCartesian(n, outerRadiusOf(p), angle1, baseThicknessOf(p))
      outerTop2 == polarToCartesian(n, outerRadiusOf(p), angle2, baseThicknessOf(p))
      bottomRow == c.rows - 1
  IN  addTriangle(centerBottom, outerBottom2, outerBottom1)
      \o addTriangle(centerTop, innerTop1, innerTop2)
      \o addQuad(outerBottom1, outerBottom2, outerTop2, outerTop1)
      \o (IF ~isSolid(c, p, bottomRow, col)
            THEN addQuad(outerTop1, outerTop2, innerTop2, innerTop1)
            ELSE <<>>)

\* wall band heights (stl-generator.ts 227-228)
zTopOf(c, p, row) == wallTopOf(p) - (row * p.wallHeight) \div c.rows
zBottomOf(c, p, row) == wallTopOf(p) - ((row + 1) * p.wallHeight) \div c.rows

\* the two skins of one wall cell (stl-generator.ts 230-240)
outerFace(c, p, row, col) ==
  LET n == c.columns
      r == outerRadiusOf(p)
  IN  addQuad(polarToCartesian(n, r, col, zBottomOf(c, p, row)),
              polarToCartesian(n, r, col + 1, zBottomOf(c, p, row)),
              polarToCartesian(n, r, col + 1, zTopOf(c, p, row)),
              polarToCartesian(n, r, col, zTopOf(c, p, row)))

innerFace(c, p, row, col) ==
  LET n == c.columns
      r == innerRadiusOf(p)
  IN  addQuad(polarToCartesian(n, r, col, zBottomOf(c, p, row)),
              polarToCartesian(n, r, col + 1, zBottomOf(c, p, row)),
              polarToCartesian(n, r, col + 1, zTopOf(c, p, row)),
              polarToCartesian(n, r, col, zTopOf(c, p, row)))

\* variant: no cap towards the row below
wallCellOpenBelow(c, p, row, col) ==
  LET prevCol == (col - 1 + c.columns) % c.columns
      nextCol == (col + 1) % c.columns
      zTop == zTopOf(c, p, row)
      zBottom == zBottomOf(c, p, row)
  IN  IF ~isSolid(c, p, row, col) THEN <<>>
      ELSE outerFace(c, p, row, col)
        \o innerFace(c, p, row, col)
        \o (IF ~isSolid(c, p, row, prevCol)
              THEN addRadialFace(c, p, col, zBottom, zTop, TRUE) ELSE <<>>)
        \o (IF ~isSolid(c, p, row, nextCol)
              THEN addRadialFace(c, p, col + 1, zBottom, zTop, FALSE) ELSE <<>>)
        \o (IF row > 0 /\ ~isSolid(c, p, row - 1, col)
              THEN addHorizontalFace(c, p, zTop, col, col + 1, FALSE) ELSE <<>>)

\* one iteration of the row loop (stl-generator.ts 222-254)
wallCell(c, p, row, col) ==
  LET prevCol == (col - 1 + c.columns) % c.columns
      nextCol == (col + 1) % c.columns
      zTop == zTopOf(c, p, row)
      zBottom == zBottomOf(c, p, row)
  IN  IF ~isSolid(c, p, row, col) THEN <<>>
      ELSE outerFace(c, p, row, col)
        \o innerFace(c, p, row, col)
        \o (IF ~isSolid(c, p, row, prevCol)
              THEN addRadialFace(c, p, col, zBottom, zTop, TRUE) ELSE <<>>)
        \o (IF ~isSolid(c, p, row, nextCol)
              THEN addRadialFace(c, p, col + 1, zBottom, zTop, FALSE) ELSE <<>>)
        \o (IF row > 0 /\ ~isSolid(c, p, row - 1, col)
              THEN addHorizontalFace(c, p, zTop, col, col + 1, FALSE) ELSE <<>>)
        \o (IF row < c.rows - 1 /\ ~isSolid(c, p, row + 1, col)
              THEN addHorizontalFace(c, p, zBottom, col, col + 1, TRUE) ELSE <<>>)

wallColumn(c, p, col) == Loop(c.rows, [row \in 0..(c.rows - 1) |-> wallCell(c, p, row, col)])

(***************************************************************************)
(* dome, pocket, lip and top annulus (stl-generator.ts 257-329)            *)
(***************************************************************************)
\* 10000 * cos(progress * pi/2) for progress = k/steps, steps in 4..8
CosQuarter ==
  [steps \in 4..8 |->
    CASE steps = 4 -> <<10000, 9239, 7071, 3827, 0>>
      [] steps = 5 -> <<10000, 9511, 8090, 5878, 3090, 0>>
      [] steps = 6 -> <<10000, 9659, 8660, 7071, 5000, 2588, 0>>
      [] steps = 7 -> <<10000, 9749, 9010, 7818, 6235, 4339, 2225, 0>>
      [] steps = 8 -> <<10000, 9808, 9239, 8315, 7071, 5556, 3827, 1951, 0>>]

\* interpolateRadius(from, to, progress) with progress = k/steps
interpolateRadius(from, to, k, steps) ==
  to + ((from - to) * CosQuarter[steps][k + 1]) \div 10000

domeStepsOf(c) == Max(8, Round((c.columns * Scale) \div 6))

innerStepsOf(c, p) ==
  IF innerDomeHeightOf(p) > 0
    THEN Max(4, Round((domeStepsOf(c) * innerDomeHeightOf(p) * Scale) \div p.domeHeight))
    ELSE 0

outerDomeStep(c, p, step) ==
  LET n == c.columns
      steps == domeStepsOf(c)
      z1 == wallTopOf(p) + (p.domeHeight * step) \div steps
      z2 == wallTopOf(p) + (p.domeHeight * (step + 1)) \div steps
      outerR1 == interpolateRadius(outerRadiusOf(p), domeOuterTopRadiusOf(p), step, steps)
      outerR2 == interpolateRadius(outerRadiusOf(p), domeOuterTopRadiusOf(p), step + 1, steps)
  IN  Loop(n, [i \in 0..(n - 1) |->
        addQuad(polarToCartesian(n, outerR1, i, z1),
                polarToCartesian(n, outerR1, i + 1, z1),
                polarToCartesian(n, outerR2, i + 1, z2),
                polarToCartesian(n, outerR2, i, z2))])

innerDomeStep(c, p, step) ==
  LET n == c.columns
      steps == innerStepsOf(c, p)
      z1 == wallTopOf(p) + (innerDomeHeightOf(p) * step) \div steps
      z2 == wallTopOf(p) + (innerDomeHeightOf(p) * (step + 1)) \div steps
      innerR1 == interpolateRadius(innerRadiusOf(p), innerHoleRadiusOf(p), step, steps)
      innerR2 == interpolateRadius(innerRadiusOf(p), innerHoleRadiusOf(p), step + 1, steps)
  IN  Loop(n, [i \in 0..(n - 1) |->
        addQuad(polarToCartesian(n, innerR2, i, z2),
                polarToCartesian(n, innerR2, i + 1, z2),
                polarToCartesian(n, innerR1, i + 1, z1),
                polarToCartesian(n, innerR1, i, z1))])

pocketSegment(c, p, i) ==
  LET n == c.columns
      pocketTop1 == polarToCartesian(n, openingRadiusOf(p), i, domeTopOf(p))
      pocketTop2 == polarToCartesian(n, openingRadiusOf(p), i + 1, domeTopOf(p))
      pocketBottom1 == polarToCartesian(n, openingRadiusOf(p), i, pocketBottomOf(p))
      pocketBottom2 == polarToCartesian(n, openingRadiusOf(p), i + 1, pocketBottomOf(p))
      lipOuter1 == polarToCartesian(n, openingRadiusOf(p), i, pocketBottomOf(p))
      lipOuter2 == polarToCartesian(n, openingRadiusOf(p), i + 1, pocketBottomOf(p))
      lipInner1 == polarToCartesian(n, innerHoleRadiusOf(p), i, pocketBottomOf(p))
      lipInner2 == polarToCartesian(n, innerHoleRadiusOf(p), i + 1, pocketBottomOf(p))
  IN  addQuad(pocketBottom1, pocketBottom2, pocketTop2, pocketTop1)
      \o addQuad(lipOuter1, lipInner1, lipInner2, lipOuter2)

\* variant: the annulus that closes the roof around the pocket left out
topSegmentLeftOut(c, p, i) == <<>>

topSegment(c, p, i) ==
  LET n == c.columns
      outer1 == polarToCartesian(n, domeOuterTopRadiusOf(p), i, domeTopOf(p))
      outer2 == polarToCartesian(n, domeOuterTopRadiusOf(p), i + 1, domeTopOf(p))
      inner1 == polarToCartesian(n, openingRadiusOf(p), i, domeTopOf(p))
      inner2 == polarToCartesian(n, openingRadiusOf(p), i + 1, domeTopOf(p))
  IN  addQuad(outer1, inner1, inner2, outer2)

(***************************************************************************)
(* generateGeometry (stl-generator.ts 99-332): the thrown message or the   *)
(* triangle list, in the order the code pushes the triangles               *)
(***************************************************************************)
MaskError == "Cutout mask resolution must be at least 3x3."

generateGeometry(c, p) ==
  IF c.columns < 3 \/ c.rows < 3
    THEN [error |-> MaskError, triangles |-> <<>>]
    ELSE [error |-> "ok",
          triangles |->
               Loop(c.columns, [col \in 0..(c.columns - 1) |-> baseColumn(c, p, col)])
            \o Loop(c.columns, [col \in 0..(c.columns - 1) |-> wallColumn(c, p, col)])
            \o Loop(domeStepsOf(c),
                    [step \in 0..(domeStepsOf(c) - 1) |-> outerDomeStep(c, p, step)])
            \o Loop(innerStepsOf(c, p),
                    [step \in 0..(innerStepsOf(c, p) - 1) |-> innerDomeStep(c, p, step)])
            \o Loop(c.columns, [i \in 0..(c.columns - 1) |-> pocketSegment(c, p, i)])
            \o Loop(c.columns, [i \in 0..(c.columns - 1) |-> topSegment(c, p, i)])]

(***************************************************************************)
(* calculateNormal (stl-generator.ts 334-352).  Vertices are <<x, y, z>> in *)
(* thousandths, so the cross product is exact.  The quotient by the       *)
(* length is not computed: the result is the vector before the division,  *)
(* the squared length, and whether the code divided by the length.        *)
(***************************************************************************)
cross(u, v) ==
  <<u[2] * v[3] - u[3] * v[2], u[3] * v[1] - u[1] * v[3], u[1] * v[2] - u[2] * v[1]>>

squaredLength(n) == n[1] * n[1] + n[2] * n[2] + n[3] * n[3]

calculateNormal(v1, v2, v3) ==
  LET u == <<v2[1] - v1[1], v2[2] - v1[2], v2[3] - v1[3]>>
      v == <<v3[1] - v1[1], v3[2] - v1[2], v3[3] - v1[3]>>
      n == cross(u, v)
  IN  [status |-> "returned",
       vector |-> n,
       squaredLength |-> squaredLength(n),
       divided |-> squaredLength(n) > 0]

(***************************************************************************)
(* serializers (stl-generator.ts 354-427)                                  *)
(***************************************************************************)
headerSize == 80
countSize == 4
vectorSize == 12
attributeSize == 2

\* variant: a record without its attribute bytes
triangleSizeNoAttribute == 4 * vectorSize

triangleSize == 50

\* writeVector3 returns the offset after the three float32 it wrote
writeVector3(offset) == offset + vectorSize

\* the four bytes of an unsigned 32-bit integer, lowest address first
byteOrder(value) ==
  <<value % 256, (value \div 256) % 256, (value \div (256 * 256)) % 256,
    (value \div (256 * 256 * 256)) % 256>>

\* variant: the highest byte first, whatever is asked for
setUint32BigEndian(value, littleEndian) ==
  <<byteOrder(value)[4], byteOrder(value)[3], byteOrder(value)[2], byteOrder(value)[1]>>

\* DataView.setUint32: the bytes it stores, lowest address first
setUint32(value, littleEndian) ==
  IF littleEndian THEN byteOrder(value)
  ELSE <<byteOrder(value)[4], byteOrder(value)[3], byteOrder(value)[2], byteOrder(value)[1]>>

\* the writes of one iteration of the loop (stl-generator.ts 375-382) that
\* starts with the cursor at offset: where each write goes and what it
\* holds, the normal standing for calculateNormal of the three vertices
recordWrites(offset, vertices) ==
  LET afterNormal == writeVector3(offset)
      afterV1 == writeVector3(afterNormal)
      afterV2 == writeVector3(afterV1)
      afterV3 == writeVector3(afterV2)
  IN  <<[at |-> offset, size |-> vectorSize, what |-> "normal", of |-> vertices],
        [at |-> afterNormal, size |-> vectorSize, what |-> "vertex", of |-> vertices[1]],
        [at |-> afterV1, size |-> vectorSize, what |-> "vertex", of |-> vertices[2]],
        [at |-> afterV2, size |-> vectorSize, what |-> "vertex", of |-> vertices[3]],
        [at |-> afterV3, size |-> attributeSize, what |-> "attribute", of |-> 0]>>

\* generateSTL: the allocated length, the count field at byte 80, and per
\* triangle the offset of its record, its vertices and its attribute; the
\* record is normal, v1, v2, v3 (one writeVector3 each), then the attribute.
generateSTL(triangles) ==
  LET triangleCount == Len(triangles)
      bufferSize == headerSize + countSize + triangleCount * triangleSize
      \* one iteration of the loop moves offset by this much
      advance == writeVector3(writeVector3(writeVector3(writeVector3(0)))) + attributeSize
      offsetOf[i \in 1..(triangleCount + 1)] == 84 + (i - 1) * advance
  IN  [byteLength |-> bufferSize,
       triangleCount |-> triangleCount,
       countField |-> [at |-> headerSize, bytes |-> setUint32(triangleCount, TRUE)],
       records |-> [i \in 1..triangleCount |->
                     [offset |-> offsetOf[i],
                      vertices |-> triangles[i],
                      attribute |-> 0,
                      writes |-> recordWrites(offsetOf[i], triangles[i])]],
       end |-> offsetOf[triangleCount + 1]]

\* variant: a facet whose loop is left open
asciiFacetOpenLoop(t) ==
  << <<"facet normal">>, <<"outer loop">>,
     <<"vertex", t[1]>>, <<"vertex", t[2]>>, <<"vertex", t[3]>>,
     <<"endfacet">> >>

\* generateAsciiSTL: the lines of the text
asciiFacet(t) ==
  << <<"facet normal">>, <<"outer loop">>,
     <<"vertex", t[1]>>, <<"vertex", t[2]>>, <<"vertex", t[3]>>,
     <<"endloop">>, <<"endfacet">> >>

generateAsciiSTL(triangles) ==
  << <<"solid", "shadecaster">> >>
  \o Flatten([i \in 1..Len(triangles) |-> asciiFacet(triangles[i])])
  \o << <<"endsolid", "shadecaster">> >>

NotRun == [status |-> "none"]

\* a throw leaves no Blob; emitted is what the triangle list held by then
Thrown(message, emitted) ==
  [status |-> "thrown", error |-> message, triangles |-> emitted]

binaryBlob(triangles) ==
  [status |-> "returned", triangles |-> triangles,
   blob |-> [type |-> "application/sla", size |-> generateSTL(triangles).byteLength,
             content |-> generateSTL(triangles)]]

\* variant: the text file typed as plain text
asciiBlobPlainText(triangles) ==
  [status |-> "returned", triangles |-> triangles,
   blob |-> [type |-> "text/plain", lines |-> Len(generateAsciiSTL(triangles)),
             content |-> generateAsciiSTL(triangles)]]

asciiBlob(triangles) ==
  [status |-> "returned", triangles |-> triangles,
   blob |-> [type |-> "application/sla", lines |-> Len(generateAsciiSTL(triangles)),
             content |-> generateAsciiSTL(triangles)]]

\* variant: the mesh is built before the parameters are validated
exportSTLMaskFirst(c, p, f) ==
  LET geometry == generateGeometry(c, p)
  IN  IF geometry.error # "ok" THEN Thrown(geometry.error, geometry.triangles)
      ELSE IF validateGeometryParams(p) # "ok"
        THEN Thrown(validateGeometryParams(p), geometry.triangles)
      ELSE IF f = "ascii" THEN asciiBlob(geometry.triangles)
      ELSE binaryBlob(geometry.triangles)

\* variant: the triangle list lives on between calls, a call adding its
\* triangles to those of the remembered call
exportSTLKeepingTriangles(c, p, f) ==
  IF validateGeometryParams(p) # "ok" THEN Thrown(validateGeometryParams(p), <<>>)
  ELSE LET geometry == generateGeometry(c, p)
           kept == IF remembered.outcome.status = "returned"
                     THEN remembered.outcome.triangles ELSE <<>>
       IN  IF geometry.error # "ok" THEN Thrown(geometry.error, geometry.triangles)
           ELSE IF f = "ascii" THEN asciiBlob(kept \o geometry.triangles)
           ELSE binaryBlob(kept \o geometry.triangles)

\* exportSTL (stl-generator.ts 414-427)
exportSTL(c, p, f) ==
  IF validateGeometryParams(p) # "ok" THEN Thrown(validateGeometryParams(p), <<>>)
  ELSE LET geometry == generateGeometry(c, p)
       IN  IF geometry.error # "ok" THEN Thrown(geometry.error, geometry.triangles)
           ELSE IF f = "ascii" THEN asciiBlob(geometry.triangles)
           ELSE binaryBlob(geometry.triangles)

(***************************************************************************)
(* float32: what DataView.setFloat32 stores for a number and getFloat32    *)
(* gives back.  A number v is in thousandths; the float32 nearest to       *)
(* v / 1000 is mantissa * 2^(exponent - 23) with 2^23 <= mantissa < 2^24   *)
(* (0 for v = 0).  residue is the distance from v / 1000 to that float32   *)
(* in thousandths of 2^(exponent - 23), the spacing of float32 there.      *)
(***************************************************************************)
Pow2(n) == 2 ^ n

\* the k with 2^k <= |v| / 1000 < 2^(k + 1), for 0 < |v| < 4096000
exponentOf(v) ==
  CHOOSE k \in (0 - 10)..11 :
    IF k >= 0
      THEN Scale * Pow2(k) <= Abs(v) /\ Abs(v) < Scale * Pow2(k + 1)
      ELSE Scale <= Abs(v) * Pow2(0 - k) /\ Abs(v) * Pow2(0 - k) < 2 * Scale

\* <<quotient, remainder>> of n * 2^bits by Scale, one bit at a time
RECURSIVE shifted(_, _)
shifted(n, bits) ==
  IF bits = 0 THEN <<n \div Scale, n % Scale>>
  ELSE LET half == shifted(n, bits - 1)
       IN  <<2 * half[1] + (2 * half[2]) \div Scale, (2 * half[2]) % Scale>>

\* variant: the digits after the 24th bit dropped instead of rounded
float32Truncated(v) ==
  IF v = 0 THEN [sign |-> 1, exponent |-> 0, mantissa |-> 0, residue |-> 0]
  ELSE LET k == exponentOf(v)
           scaled == shifted(Abs(v), 23 - k)
       IN  [sign |-> IF v < 0 THEN 0 - 1 ELSE 1,
            exponent |-> k,
            mantissa |-> scaled[1],
            residue |-> scaled[2]]

\* round to nearest, ties to even
float32(v) ==
  IF v = 0 THEN [sign |-> 1, exponent |-> 0, mantissa |-> 0, residue |-> 0]
  ELSE LET k == exponentOf(v)
           scaled == shifted(Abs(v), 23 - k)
           up == \/ 2 * scaled[2] > Scale
                 \/ 2 * scaled[2] = Scale /\ scaled[1] % 2 = 1
       IN  [sign |-> IF v < 0 THEN 0 - 1 ELSE 1,
            exponent |-> k,
            mantissa |-> IF up THEN scaled[1] + 1 ELSE scaled[1],
            residue |-> IF up THEN Scale - scaled[2] ELSE scaled[2]]

(***************************************************************************)
(* readBinarySTL (the STL inspection tool): the error it throws or the     *)
(* edge statistics of the mesh in the buffer                               *)
(***************************************************************************)
\* vectorKey: the position quantized at 1e-5; positions of the model are
\* exact multiples of 1/Scale, so the key is the vertex itself
vectorKey(v) == v

\* variant: the keys in the order given, a|b and b|a being two keys
edgeKeyAsGiven(a, b) == <<a, b>>

\* edgeKey: the two keys in a fixed order, so that a|b and b|a are one key
edgeKey(a, b) == {a, b}

\* addEdge over the triangles lo..hi: how many times each edge key was added
RECURSIVE edgeCounts(_, _, _)
edgeCounts(records, lo, hi) ==
  IF lo > hi THEN EmptyBag
  ELSE IF lo = hi THEN
    LET k1 == vectorKey(records[lo].vertices[1])
        k2 == vectorKey(records[lo].vertices[2])
        k3 == vectorKey(records[lo].vertices[3])
    IN  SetToBag({edgeKey(k1, k2)}) (+) SetToBag({edgeKey(k2, k3)})
          (+) SetToBag({edgeKey(k3, k1)})
  ELSE LET mid == (lo + hi) \div 2
       IN  edgeCounts(records, lo, mid) (+) edgeCounts(records, mid + 1, hi)

\* the vector of three float32 that starts at a byte offset of the buffer:
\* the vertex a writeVector3 call put there, or Unwritten when the offset is
\* not the start of a vertex
Unwritten == <<>>

vectorAt(buffer, offset) ==
  LET slots == {slot \in (1..buffer.triangleCount) \X (1..3) :
                  buffer.records[slot[1]].offset + slot[2] * vectorSize = offset}
  IN  IF slots = {} THEN Unwritten
      ELSE LET slot == CHOOSE sl \in slots : TRUE
               v == buffer.records[slot[1]].vertices[slot[2]]
           IN  [c \in 1..3 |-> float32(v[c])]

\* the three vertices readBinarySTL reads for each triangle of the count
\* field (part_002 75-92): past the normal, at 84 + 50 i + 12, + 24, + 36
readVertices(buffer) ==
  [i \in 1..buffer.triangleCount |->
    [j \in 1..3 |-> vectorAt(buffer, 84 + 50 * (i - 1) + 12 * j)]]

readBinarySTL(buffer) ==
  IF buffer.byteLength < 84
    THEN [error |-> "File too small to be a valid binary STL."]
  ELSE IF 84 + buffer.triangleCount * 50 # buffer.byteLength
    THEN [error |-> "Size mismatch for binary STL."]
  ELSE
    LET edges == edgeCounts(buffer.records, 1, buffer.triangleCount)
        openEdges == Cardinality({e \in DOMAIN edges : edges[e] = 1})
        overEdges == Cardinality({e \in DOMAIN edges : edges[e] > 2})
    IN  [error |-> "ok",
         triangles |-> buffer.triangleCount,
         edges |-> Cardinality(DOMAIN edges),
         openEdges |-> openEdges,
         overEdges |-> overEdges,
         nonManifoldEdges |-> openEdges + overEdges,
         countHistogram |-> [n \in {edges[e] : e \in DOMAIN edges} |->
                              Cardinality({e \in DOMAIN edges : edges[e] = n})]]

(***************************************************************************)
(* image-processor.ts.  An ImageData is [width, height, data] with         *)
(* data[y][x] the pixel <<r, g, b, alpha>>.  Luminance is kept exact in    *)
(* thousandths (299 r + 587 g + 114 b); sampling positions are in          *)
(* hundredths of a pixel and the direction cosines in ten-thousandths.     *)
(***************************************************************************)
gray1000(px) == 299 * px[1] + 587 * px[2] + 114 * px[3]

\* variant: alpha 128 taken as transparent
toBinaryAbove128(imageData, threshold) ==
  [y \in 0..(imageData.height - 1) |->
    [x \in 0..(imageData.width - 1) |->
      LET px == imageData.data[y][x]
      IN  px[4] > 128 /\ gray1000(px) < threshold]]

\* variant: the pixels at or above the threshold are the solid ones
toBinaryBrightSolid(imageData, threshold) ==
  [y \in 0..(imageData.height - 1) |->
    [x \in 0..(imageData.width - 1) |->
      LET px == imageData.data[y][x]
      IN  px[4] >= 128 /\ gray1000(px) >= threshold]]

\* toBinary (image-processor.ts 14-35); threshold in thousandths
toBinary(imageData, threshold) ==
  [y \in 0..(imageData.height - 1) |->
    [x \in 0..(imageData.width - 1) |->
      LET px == imageData.data[y][x]
          alpha == px[4]
          gray == gray1000(px)
      IN  alpha >= 128 /\ gray < threshold]]

\* samplePixel (42-55): gray in hundredths
samplePixel(imageData, x, y) ==
  [gray |-> gray1000(imageData.data[y][x]) \div 10, alpha |-> imageData.data[y][x][4]]

\* sampleBilinear (57-82): x, y in hundredths of a pixel; the result is
\* 10000 times the blended value (the four weights sum to 10000)
sampleBilinear(imageData, x, y) ==
  LET width == imageData.width
      height == imageData.height
      clampedX == clamp(x, 0, 100 * (width - 1))
      clampedY == clamp(y, 0, 100 * (height - 1))
      x0 == clampedX \div 100
      y0 == clampedY \div 100
      x1 == Min(x0 + 1, width - 1)
      y1 == Min(y0 + 1, height - 1)
      dx == clampedX - 100 * x0
      dy == clampedY - 100 * y0
      p00 == samplePixel(imageData, x0, y0)
      p10 == samplePixel(imageData, x1, y0)
      p01 == samplePixel(imageData, x0, y1)
      p11 == samplePixel(imageData, x1, y1)
      w00 == (100 - dx) * (100 - dy)
      w10 == dx * (100 - dy)
      w01 == (100 - dx) * dy
      w11 == dx * dy
  IN  [gray |-> p00.gray * w00 + p10.gray * w10 + p01.gray * w01 + p11.gray * w11,
       alpha |-> p00.alpha * w00 + p10.alpha * w10 + p01.alpha * w01 + p11.alpha * w11]

\* sampleSupersampled (84-106): the sum over the 5 taps; the division by
\* total = 5 is carried to the comparison in buildRadialMask
spread == 35
sampleSupersampled(imageData, x, y) ==
  LET samples == <<sampleBilinear(imageData, x, y),
                   sampleBilinear(imageData, x - spread, y - spread),
                   sampleBilinear(imageData, x + spread, y - spread),
                   sampleBilinear(imageData, x - spread, y + spread),
                   sampleBilinear(imageData, x + spread, y + spread)>>
  IN  [gray |-> samples[1].gray + samples[2].gray + samples[3].gray
                  + samples[4].gray + samples[5].gray,
       alpha |-> samples[1].alpha + samples[2].alpha + samples[3].alpha
                   + samples[4].alpha + samples[5].alpha,
       total |-> Len(samples)]

\* 10000 * cos and sin of (col + 0.5) * 2*pi/columns
CosCentre ==
  [columns \in 3..6 |->
    CASE columns = 3 -> <<5000, -10000, 5000>>
      [] columns = 4 -> <<7071, -7071, -7071, 7071>>
      [] columns = 5 -> <<8090, -3090, -10000, -3090, 8090>>
      [] columns = 6 -> <<8660, 0, -8660, -8660, 0, 8660>>]

SinCentre ==
  [columns \in 3..6 |->
    CASE columns = 3 -> <<8660, 0, -8660>>
      [] columns = 4 -> <<7071, 7071, -7071, -7071>>
      [] columns = 5 -> <<5878, 9511, 0, -9511, -5878>>
      [] columns = 6 -> <<5000, 10000, 5000, -5000, -10000, -5000>>]

\* variant: cells lighter than the threshold taken as dark
cellIsLight(sample, threshold) ==
  /\ sample.alpha >= 128 * 10000 * sample.total
  /\ sample.gray >= threshold * 1000 * sample.total

\* the solid test of one polar cell (image-processor.ts 137-138):
\* mean alpha >= 128 and mean gray < threshold
cellIsDark(sample, threshold) ==
  /\ sample.alpha >= 128 * 10000 * sample.total
  /\ sample.gray < threshold * 1000 * sample.total

\* buildRadialMask (108-143); the caller has checked width, height > 0
\* the distance from the centre of the picture to its nearest side (119-121),
\* in hundredths of a pixel
maxRadiusOf(imageData) ==
  LET centerX == (100 * (imageData.width - 1)) \div 2
      centerY == (100 * (imageData.height - 1)) \div 2
  IN  Min(centerX, centerY)

\* variant: the rows counted from the centre outwards
radiusOfRowFromCentre(maxRadius, rows, row) == (maxRadius * row) \div Max(rows - 1, 1)

\* the radius at which a row of the mask is sampled (123, 132)
radiusOfRow(maxRadius, rows, row) ==
  LET rowDenominator == Max(rows - 1, 1)
  IN  (maxRadius * (rows - 1 - row)) \div rowDenominator

buildRadialMask(imageData, threshold, columns, rows) ==
  LET centerX == (100 * (imageData.width - 1)) \div 2
      centerY == (100 * (imageData.height - 1)) \div 2
      maxRadius == maxRadiusOf(imageData)
  IN  [row \in 0..(rows - 1) |->
        [col \in 0..(columns - 1) |->
          LET radius == radiusOfRow(maxRadius, rows, row)
              x == centerX + (CosCentre[columns][col + 1] * radius) \div 10000
              y == centerY + (SinCentre[columns][col + 1] * radius) \div 10000
          IN  cellIsDark(sampleSupersampled(imageData, x, y), threshold)]]

\* getMaskResolution (145-148).  The code keeps the canvas between 240 and
\* 720 pixels a side; the model's canvas has MaxMaskResolution pixels a side.
MaxMaskResolution == 3
MinMaskResolution == MaxMaskResolution
maskFactor == 12

getMaskResolution(angularResolution) ==
  LET base == Max(angularResolution * maskFactor, MinMaskResolution)
  IN  Min(MaxMaskResolution, base)

ParamsError == "Processing parameters must be valid numbers."
ResolutionError == "Angular resolution must be at least 3."
NoDataError == "Image has no data."
AllWhiteError ==
  "Image is all white/transparent. Please provide an image with dark silhouette content. Try lowering the threshold."
AllBlackError ==
  "Image is all black. Please provide an image with a clear silhouette. Try raising the threshold."

\* variant: Math.ceil for Math.round
ceiledResolution(angularResolution) == (angularResolution + Scale - 1) \div Scale

\* Math.round(params.angularResolution) (image-processor.ts 155)
roundedResolution(angularResolution) == Round(angularResolution)

Rejected(message) == [status |-> "thrown", error |-> message]

\* variant: the all-black test left out
degenerateErrorWhiteOnly(hasAnyDarkPixels, hasAnyLightPixels) ==
  IF ~hasAnyDarkPixels THEN AllWhiteError ELSE "ok"

\* the two tests of the binary field (image-processor.ts 184-194)
degenerateError(hasAnyDarkPixels, hasAnyLightPixels) ==
  IF ~hasAnyDarkPixels THEN AllWhiteError
  ELSE IF ~hasAnyLightPixels THEN AllBlackError
  ELSE "ok"

\* processImage (150-205).  imageData is what getImageData returns for the
\* picture drawn on the canvas; the rasterizer is outside the model.
processImage(imageData, angularResolution, threshold) ==
  IF ~IsFinite(angularResolution) \/ ~IsFinite(threshold) THEN Rejected(ParamsError)
  ELSE IF roundedResolution(angularResolution) < 3 THEN Rejected(ResolutionError)
  ELSE IF imageData.width = 0 \/ imageData.height = 0 THEN Rejected(NoDataError)
  ELSE
    LET clamped == clamp(threshold, 0, 255 * Scale)
        maskResolution == getMaskResolution(roundedResolution(angularResolution))
        binary == toBinary(imageData, clamped)
        hasAnyDarkPixels ==
          \E y \in DOMAIN binary : \E x \in DOMAIN binary[y] : binary[y][x]
        hasAnyLightPixels ==
          \E y \in DOMAIN binary : \E x \in DOMAIN binary[y] : ~binary[y][x]
    IN  IF degenerateError(hasAnyDarkPixels, hasAnyLightPixels) # "ok"
          THEN [status |-> "thrown", binary |-> binary,
                error |-> degenerateError(hasAnyDarkPixels, hasAnyLightPixels)]
        ELSE [status |-> "returned", error |-> "ok", binary |-> binary,
              threshold |-> clamped,
              mask |-> [data |-> buildRadialMask(imageData, clamped,
                                                 maskResolution, maskResolution),
                        columns |-> maskResolution,
                        rows |-> maskResolution]]

(***************************************************************************)
(* main.ts.  null is NoImage for state.image, NoMask for state.mask,       *)
(* "null" for state.fileName and 0 for processingTimeout.  Time is in      *)
(* milliseconds and moves in steps of tick.                                *)
(***************************************************************************)
NoImage == [width |-> 0, height |-> 0, data |-> <<>>]

NoMask == [data |-> <<>>, columns |-> 0, rows |-> 0]

NoFile == "null"

\* the delay of the timer of scheduleProcessing (main.ts 188)
debounceDelay == 150

\* the step of the clock: a third of the delay
tick == debounceDelay \div 3

\* clampOrFallback (main.ts 84-85)
clampOrFallback(value, lo, hi, fallback) ==
  IF IsFinite(value) THEN clamp(value, lo, hi) ELSE fallback

\* getProcessingParams (128-133): what it returns, which readNumberInput
\* (87-96) also writes back to the two inputs
getProcessingParams(inputs) ==
  [angularResolution |->
     clampOrFallback(inputs.angularResolution, 12 * Scale, 180 * Scale, 18 * Scale),
   threshold |-> clampOrFallback(inputs.threshold, 0, 255 * Scale, 128 * Scale)]

\* getGeometryParams (135-143): the record it returns from the six number
\* inputs and the angular-resolution input
getGeometryParams(numbers, ranges) ==
  [domeDiameter |-> clampOrFallback(numbers.domeDiameter, 50 * Scale, 200 * Scale, 60 * Scale),
   domeHeight |-> clampOrFallback(numbers.domeHeight, 20 * Scale, 150 * Scale, 20 * Scale),
   ledMountDiameter |->
     clampOrFallback(numbers.ledMountDiameter, 30 * Scale, 45 * Scale, 38 * Scale),
   ledMountHeight |->
     clampOrFallback(numbers.ledMountHeight, 10 * Scale, 25 * Scale, 16 * Scale),
   wallThickness |->
     clampOrFallback(numbers.wallThickness, Scale \div 2, 5 * Scale, (16 * Scale) \div 10),
   wallHeight |-> clampOrFallback(numbers.wallHeight, 10 * Scale, 120 * Scale, 25 * Scale),
   pillarCount |->
     clampOrFallback(ranges.angularResolution, 12 * Scale, 180 * Scale, 18 * Scale)]

\* what readNumberInput (87-96) leaves in the six number inputs after
\* getGeometryParams
numberInputsAfter(geometry) ==
  [field \in DOMAIN geometry \ {"pillarCount"} |-> geometry[field]]

\* variant: a run that fails leaves the download button shown
runProcessingButtonKept(picture, inputs) ==
  LET processingParams == getProcessingParams(inputs)
      result == processImage(picture, processingParams.angularResolution,
                             processingParams.threshold)
  IN  IF result.status = "returned"
        THEN [mask |-> result.mask, visible |-> TRUE]
        ELSE [mask |-> NoMask, visible |-> TRUE]

\* the try/catch of runProcessing (152-164) on a loaded picture: the mask
\* and whether the download button is shown
runProcessing(picture, inputs) ==
  LET processingParams == getProcessingParams(inputs)
      result == processImage(picture, processingParams.angularResolution,
                             processingParams.threshold)
  IN  IF result.status = "returned"
        THEN [mask |-> result.mask, visible |-> TRUE]
        ELSE [mask |-> NoMask, visible |-> FALSE]

\* window.clearTimeout
clearTimeout(live, id) == [t \in DOMAIN live \ {id} |-> live[t]]

\* window.setTimeout: the id of the new timer, and the timers with it
freeTimerId(live) == CHOOSE id \in 1..MaxTimers : id \notin DOMAIN live /\
                       \A other \in 1..MaxTimers : other \notin DOMAIN live => id <= other

setTimeout(live, delay) ==
  [t \in DOMAIN live \cup {freeTimerId(live)} |->
     IF t = freeTimerId(live) THEN delay ELSE live[t]]

\* variant: the pending timer is not cleared before the new one is set
scheduleProcessingNoClear(pending, live) ==
  [processingTimeout |-> freeTimerId(live), timers |-> setTimeout(live, debounceDelay)]

\* scheduleProcessing (176-189) on a loaded picture: the timers after it
scheduleProcessing(pending, live) ==
  LET cleared == IF pending # 0 THEN clearTimeout(live, pending) ELSE live
  IN  [processingTimeout |-> freeTimerId(cleared),
       timers |-> setTimeout(cleared, debounceDelay)]

(***************************************************************************)
(* Inputs of the model                                                     *)
(***************************************************************************)
Formats == {"binary", "ascii"}

Cells(columns, rows) == (0..(rows - 1)) \X (0..(columns - 1))

\* the sets of at most k cells
RECURSIVE CellSets(_, _, _)
CellSets(columns, rows, k) ==
  IF k = 0 THEN {{}}
  ELSE LET fewer == CellSets(columns, rows, k - 1)
       IN  fewer \cup {s \cup {cell} : s \in fewer, cell \in Cells(columns, rows)}

\* the mask whose data is true (cutout) exactly at the cells of s
MaskOf(columns, rows, s) ==
  [data |-> [row \in 0..(rows - 1) |-> [col \in 0..(columns - 1) |-> <<row, col>> \in s]],
   columns |-> columns,
   rows |-> rows]

CutoutCount(c) ==
  Cardinality({cell \in Cells(c.columns, c.rows) : c.data[cell[1]][cell[2]]})

\* every mask of 2..MaxColumns by 2..MaxRows cells with at most MaxCutouts cutouts
Masks ==
  UNION {UNION {{MaskOf(columns, rows, s) : s \in CellSets(columns, rows, MaxCutouts)} :
                rows \in 2..MaxRows} :
         columns \in 2..MaxColumns}

\* the lamp of the UI defaults: 60 x 20 dome, 1.6 wall, 25 high, 38 x 16 mount
BaseParams ==
  [domeDiameter |-> 60 * Scale, domeHeight |-> 20 * Scale,
   wallThickness |-> (16 * Scale) \div 10, wallHeight |-> 25 * Scale,
   ledMountDiameter |-> 38 * Scale, ledMountHeight |-> 16 * Scale,
   pillarCount |-> 8 * Scale]

\* the default lamp, a dome lower than the wall is thick, a fractional
\* pillar count, and two rejected records
ParamSets ==
  {BaseParams,
   [BaseParams EXCEPT !.domeHeight = Scale],
   [BaseParams EXCEPT !.pillarCount = (35 * Scale) \div 10],
   [BaseParams EXCEPT !.domeHeight = NaN],
   [BaseParams EXCEPT !.wallThickness = 30 * Scale]}

\* the fully solid mask of 4 rows by 8 columns
ScenarioMask == MaskOf(8, 4, {})

\* the mask of 3 rows by 3 columns whose middle row is cut out all around
RingMask == MaskOf(3, 3, {<<1, 0>>, <<1, 1>>, <<1, 2>>})

\* the default lamp with pillarCount 3
ThreePillars == [BaseParams EXCEPT !.pillarCount = 3 * Scale]

\* the default lamp with a mount of 56.4 across: 28.2 + 1.6 < 30 is accepted
WideMount == [BaseParams EXCEPT !.ledMountDiameter = (564 * Scale) \div 10]

\* the calls of the model: every mask with the default lamp in binary,
\* every parameter record and format with the masks of at most one cutout,
\* the 4 x 8 solid mask with the default lamp in both formats, the ring
\* mask with three pillars, and the solid mask with the wide mount
Requests ==
  {r \in Masks \X ParamSets \X Formats :
     CutoutCount(r[1]) <= 1 \/ (r[2] = BaseParams /\ r[3] = "binary")}
  \cup {<<ScenarioMask, BaseParams, f>> : f \in Formats}
  \cup {<<RingMask, ThreePillars, f>> : f \in Formats}
  \cup {<<MaskOf(3, 3, {}), WideMount, f>> : f \in Formats}

\* parameter records for validateGeometryParams: per field, values on both
\* sides of every test of the function
ParamSpace ==
  [domeDiameter : {NaN, 0, 10 * Scale, 60 * Scale},
   domeHeight : {NaN, 0, 20 * Scale},
   wallThickness : {NaN, 0, (16 * Scale) \div 10, 5 * Scale, 30 * Scale},
   wallHeight : {NaN, 0, 25 * Scale},
   ledMountDiameter : {NaN, 0, 38 * Scale, (568 * Scale) \div 10},
   ledMountHeight : {NaN, 0, 16 * Scale},
   pillarCount : {NaN, (29 * Scale) \div 10, 3 * Scale, 8 * Scale}]

SolidMask == MaskOf(3, 3, {})

\* the calls that are repeated: three masks, two accepted lamps and a
\* rejected one, both formats
CallRequests ==
  {SolidMask, MaskOf(3, 3, {<<1, 1>>}), MaskOf(4, 4, {<<1, 1>>})}
  \X {BaseParams, [BaseParams EXCEPT !.domeHeight = Scale],
      [BaseParams EXCEPT !.wallThickness = 30 * Scale]}
  \X Formats

\* pixels: opaque black and white, green at the alpha limit 128, and a
\* transparent pixel just under it
Black == <<0, 0, 0, 255>>
White == <<255, 255, 255, 255>>
Green == <<0, 255, 0, 128>>
Clear == <<0, 0, 0, 127>>

\* a picture of one ink rectangle on a background
RectImage(n, bg, ink, x1, x2, y1, y2) ==
  [width |-> n, height |-> n,
   data |-> [y \in 0..(n - 1) |-> [x \in 0..(n - 1) |->
              IF x1 <= x /\ x <= x2 /\ y1 <= y /\ y <= y2 THEN ink ELSE bg]]]

Images ==
  LET n == MaxMaskResolution
  IN  {RectImage(n, bg, bg, 0, 0, 0, 0) : bg \in {Black, White, Green, Clear}}
      \cup {RectImage(n, bg, ink, x1, x2, y1, y2) :
              bg \in {White, Clear}, ink \in {Black, Green},
              x1 \in 0..(n - 1), x2 \in 0..(n - 1), y1 \in 0..(n - 1), y2 \in 0..(n - 1)}

\* not a number, 2.4, 2.5 and 3
AngularResolutions == {NaN, (24 * Scale) \div 10, (25 * Scale) \div 10, 3 * Scale}

\* not a number, 0, 128 and 300 (beyond the range, clamped to 255)
Thresholds == {NaN, 0, 128 * Scale, 300 * Scale}

\* the files of the UI and the square picture each one decodes to: a black
\* bar on white, and a green bar on white
UIFiles == {"bar.png", "green.png"}

pictureOf(file) ==
  LET n == MaxMaskResolution
  IN  IF file = "bar.png" THEN RectImage(n, White, Black, 0, 0, 0, n - 1)
      ELSE RectImage(n, White, Green, 0, n - 1, 0, 0)

\* values an input event leaves in the angular-resolution input (6, 18)
\* and in the threshold input (128, 300)
UIAngularResolutions == {6 * Scale, 18 * Scale}

UIThresholds == {128 * Scale, 300 * Scale}

\* the values the two range inputs can hold
InputValues ==
  [angularResolution : UIAngularResolutions \cup {18 * Scale, 12 * Scale},
   threshold : UIThresholds \cup {255 * Scale}]

\* values typed into the six number inputs: the ends of the range
\* getGeometryParams clamps each to (135-143), and for the wall thickness
\* also an empty input and a value above the range
TypedNumbers ==
  [domeDiameter |-> {50 * Scale, 200 * Scale},
   domeHeight |-> {20 * Scale, 150 * Scale},
   ledMountDiameter |-> {30 * Scale, 45 * Scale},
   ledMountHeight |-> {10 * Scale, 25 * Scale},
   wallThickness |-> {Scale \div 2, 5 * Scale, NaN, 9 * Scale},
   wallHeight |-> {10 * Scale, 120 * Scale}]

\* meshes for generateSTL: up to MaxTriangles triangles, the first one from
\* three points and each next one the triangle before it with its vertices
\* rotated.  The coordinates are 0, 28.4, -30, 0.001, 14.1, 200.1 and 260.2.
StlPoints ==
  {0, (284 * Scale) \div 10} \X {0 - 30 * Scale, 1}
    \X {(141 * Scale) \div 10, (2001 * Scale) \div 10, (2602 * Scale) \div 10}

RECURSIVE rotated(_, _)
rotated(t, n) == IF n = 0 THEN t ELSE rotated(<<t[2], t[3], t[1]>>, n - 1)

Meshes ==
  {[i \in 1..n |-> rotated(t, i - 1)] :
     t \in StlPoints \X StlPoints \X StlPoints, n \in 0..MaxTriangles}

\* the files readBinarySTL is given: meshes of up to MaxTriangles + 1 of
\* six triangles over four points (two windings of one face, two more faces
\* of the tetrahedron, two triangles with a repeated vertex), and the
\* number of bytes added to the file
FilePoints ==
  [a |-> <<0, 0 - 30 * Scale, (141 * Scale) \div 10>>,
   b |-> <<(284 * Scale) \div 10, 0 - 30 * Scale, (141 * Scale) \div 10>>,
   c |-> <<0, 1, (141 * Scale) \div 10>>,
   d |-> <<0, 0 - 30 * Scale, (2001 * Scale) \div 10>>]

FileTriangles ==
  {<<FilePoints.a, FilePoints.b, FilePoints.c>>, <<FilePoints.c, FilePoints.b, FilePoints.a>>,
   <<FilePoints.a, FilePoints.b, FilePoints.d>>, <<FilePoints.b, FilePoints.c, FilePoints.d>>,
   <<FilePoints.a, FilePoints.a, FilePoints.b>>, <<FilePoints.a, FilePoints.a, FilePoints.c>>}

FileMeshes == UNION {[1..n -> FileTriangles] : n \in 0..(MaxTriangles + 1)}

LengthChanges == {0 - triangleSize, 0 - 1, 0, 1, triangleSize}

\* vertices for calculateNormal: coordinates 0, a thousandth and a tenth
Origin == <<0, 0, 0>>

Coordinates == {0, 1, Scale \div 10}

Points == Coordinates \X Coordinates \X Coordinates

(***************************************************************************)
(* Specifications                                                          *)
(***************************************************************************)
NotProcessed ==
  [call |-> [angularResolution |-> 0, threshold |-> 0], result |-> NotRun]

ImageIdle ==
  /\ image = NoImage
  /\ angularResolutionInput = 0
  /\ thresholdInput = 0
  /\ processed = NotProcessed
  /\ previous = NotProcessed

\* no call is remembered
NoCall ==
  [cutout |-> SolidMask, params |-> BaseParams, format |-> "binary",
   outcome |-> NotRun, since |-> 0, other |-> FALSE]

ExportIdle ==
  /\ cutout = SolidMask
  /\ params = BaseParams
  /\ format = "binary"
  /\ outcome = NotRun
  /\ remembered = NoCall

NoBurst == [events |-> 0, since |-> 0, runs |-> 0]

\* the six number inputs as the page shows them first
DefaultGeometryInputs ==
  [domeDiameter |-> 60 * Scale, domeHeight |-> 20 * Scale,
   ledMountDiameter |-> 38 * Scale, ledMountHeight |-> 16 * Scale,
   wallThickness |-> (16 * Scale) \div 10, wallHeight |-> 25 * Scale]

UIIdle ==
  /\ state = [image |-> NoImage, mask |-> NoMask, fileName |-> NoFile]
  /\ processingTimeout = 0
  /\ timers = <<>>
  /\ domInputs = [angularResolution |-> 18 * Scale, threshold |-> 128 * Scale]
  /\ geometryInputs = DefaultGeometryInputs
  /\ downloadVisible = FALSE
  /\ loads = {}
  /\ burst = NoBurst

NoBuffer ==
  [byteLength |-> 0, triangleCount |-> 0, countField |-> [at |-> 0, bytes |-> <<>>],
   records |-> <<>>, end |-> 0]

StlIdle ==
  /\ mesh = <<>>
  /\ stlBuffer = NoBuffer
  /\ readBack = NotRun

NormalIdle ==
  /\ facet = <<Origin, Origin, Origin>>
  /\ normal = NotRun

\* one exportSTL call on a request
Init ==
  /\ \E r \in Requests : cutout = r[1] /\ params = r[2] /\ format = r[3]
  /\ outcome = NotRun
  /\ remembered = NoCall
  /\ ImageIdle
  /\ NormalIdle
  /\ UIIdle
  /\ StlIdle

ExportSTL ==
  /\ outcome' = exportSTL(cutout, params, format)
  /\ UNCHANGED <<cutout, params, format, remembered>>
  /\ UNCHANGED <<imageVars, normalVars, uiVars, stlVars>>

\* processImage on the picture with the current settings
ProcessImage ==
  /\ processed' =
       [call |-> [angularResolution |-> angularResolutionInput, threshold |-> thresholdInput],
        result |-> processImage(image, angularResolutionInput, thresholdInput)]
  /\ previous' = processed
  /\ UNCHANGED <<image, angularResolutionInput, thresholdInput>>
  /\ UNCHANGED <<exportVars, normalVars, uiVars, stlVars>>

\* the thresholdInput setting changes; the last result stays until the next run
SetThreshold ==
  /\ \E t \in Thresholds : t # thresholdInput /\ thresholdInput' = t
  /\ UNCHANGED <<image, angularResolutionInput, processed, previous>>
  /\ UNCHANGED <<exportVars, normalVars, uiVars, stlVars>>

Next == ExportSTL

Spec == Init /\ [][Next]_vars

\* exportSTL on the solid 3 x 3 mask over the parameter space
InitValidate ==
  /\ cutout = SolidMask
  /\ params \in ParamSpace
  /\ format = "binary"
  /\ outcome = NotRun
  /\ remembered = NoCall
  /\ ImageIdle
  /\ NormalIdle
  /\ UIIdle
  /\ StlIdle

SpecValidate == InitValidate /\ [][Next]_vars

\* exportSTL called again and again: once a call is over the caller passes
\* other arguments, or the same ones, to the next call; the call before, or
\* the one remembered so far, is kept to compare with
InitCalls ==
  /\ \E r \in CallRequests : cutout = r[1] /\ params = r[2] /\ format = r[3]
  /\ outcome = NotRun
  /\ remembered = NoCall
  /\ ImageIdle
  /\ NormalIdle
  /\ UIIdle
  /\ StlIdle

sameArguments(call) ==
  call.cutout = cutout /\ call.params = params /\ call.format = format

NextCall ==
  /\ outcome # NotRun
  /\ remembered.since < MaxCalls
  /\ \E r \in CallRequests : cutout' = r[1] /\ params' = r[2] /\ format' = r[3]
  /\ outcome' = NotRun
  /\ \/ remembered' = [cutout |-> cutout, params |-> params, format |-> format,
                        outcome |-> outcome, since |-> 1, other |-> FALSE]
     \/ /\ remembered # NoCall
        /\ remembered' = [remembered EXCEPT !.since = @ + 1,
                                            !.other = @ \/ ~sameArguments(remembered)]
  /\ UNCHANGED <<imageVars, normalVars, uiVars, stlVars>>

NextCalls == ExportSTL \/ NextCall

SpecCalls == InitCalls /\ [][NextCalls]_vars

\* processImage on a picture, the thresholdInput moving between runs
InitImage ==
  /\ image \in Images
  /\ angularResolutionInput \in AngularResolutions
  /\ thresholdInput \in Thresholds
  /\ processed = NotProcessed
  /\ previous = NotProcessed
  /\ ExportIdle
  /\ NormalIdle
  /\ UIIdle
  /\ StlIdle

NextImage == ProcessImage \/ SetThreshold

SpecImage == InitImage /\ [][NextImage]_vars

\* calculateNormal on a triangle
InitNormal ==
  /\ facet \in Points \X Points \X Points
  /\ normal = NotRun
  /\ ExportIdle
  /\ ImageIdle
  /\ UIIdle
  /\ StlIdle

CalculateNormal ==
  /\ normal' = calculateNormal(facet[1], facet[2], facet[3])
  /\ UNCHANGED facet
  /\ UNCHANGED <<exportVars, imageVars, uiVars, stlVars>>

NextNormal == CalculateNormal

SpecNormal == InitNormal /\ [][NextNormal]_vars

\* generateSTL on a list of triangles, then readBinarySTL on the buffer
InitStl ==
  /\ mesh \in Meshes
  /\ stlBuffer = NoBuffer
  /\ readBack = NotRun
  /\ ExportIdle
  /\ ImageIdle
  /\ NormalIdle
  /\ UIIdle

GenerateSTL ==
  /\ stlBuffer = NoBuffer
  /\ stlBuffer' = generateSTL(mesh)
  /\ UNCHANGED <<mesh, readBack>>
  /\ UNCHANGED <<exportVars, imageVars, normalVars, uiVars>>

ReadBinarySTL ==
  /\ stlBuffer # NoBuffer
  /\ readBack' = [status |-> "returned",
                  stats |-> readBinarySTL(stlBuffer),
                  vertices |-> IF readBinarySTL(stlBuffer).error = "ok"
                                 THEN readVertices(stlBuffer) ELSE <<>>]
  /\ UNCHANGED <<mesh, stlBuffer>>
  /\ UNCHANGED <<exportVars, imageVars, normalVars, uiVars>>

NextStl == GenerateSTL \/ ReadBinarySTL

\* readBinarySTL on a file: the buffer generateSTL made of a mesh, as
\* written or with bytes missing or added at its end
InitFile ==
  /\ mesh \in FileMeshes
  /\ \E change \in LengthChanges :
       stlBuffer = [generateSTL(mesh) EXCEPT !.byteLength = @ + change]
  /\ readBack = NotRun
  /\ ExportIdle
  /\ ImageIdle
  /\ NormalIdle
  /\ UIIdle

NextFile == ReadBinarySTL

SpecFile == InitFile /\ [][NextFile]_vars

SpecStl == InitStl /\ [][NextStl]_vars

\* the page: uploads, range input events, and the debounce timer
InitUI ==
  /\ UIIdle
  /\ ExportIdle
  /\ ImageIdle
  /\ NormalIdle
  /\ StlIdle

\* the change handler of the upload input up to its first await (200-210)
UploadChange ==
  /\ \E file \in UIFiles :
       /\ state' = [image |-> NoImage, mask |-> NoMask, fileName |-> file]
       /\ loads' = loads \cup {file}
  /\ downloadVisible' = FALSE
  /\ timers' = IF processingTimeout # 0 THEN clearTimeout(timers, processingTimeout)
                ELSE timers
  /\ processingTimeout' = 0
  /\ burst' = NoBurst
  /\ UNCHANGED <<domInputs, geometryInputs>>
  /\ UNCHANGED <<exportVars, imageVars, normalVars, stlVars>>

\* the rest of the handler once the picture is decoded and cropped
\* (211-215): state.image is set and processImageImmediately runs
LoadFinished ==
  /\ \E file \in loads :
       /\ loads' = loads \ {file}
       /\ state' = [state EXCEPT !.image = pictureOf(file),
                                 !.mask = runProcessing(pictureOf(file), domInputs).mask]
       /\ downloadVisible' = runProcessing(pictureOf(file), domInputs).visible
  /\ domInputs' = getProcessingParams(domInputs)
  /\ UNCHANGED <<processingTimeout, timers, geometryInputs, burst>>
  /\ UNCHANGED <<exportVars, imageVars, normalVars, stlVars>>

\* the catch of the handler (216-219): the picture could not be read
LoadFailed ==
  /\ \E file \in loads : loads' = loads \ {file}
  /\ UNCHANGED <<state, processingTimeout, timers, domInputs, geometryInputs,
                 downloadVisible, burst>>
  /\ UNCHANGED <<exportVars, imageVars, normalVars, stlVars>>

\* an input event on one of the two range inputs: handleRangeInput (191-194)
RangeInput ==
  /\ Cardinality(DOMAIN timers) < MaxTimers
  /\ \/ \E value \in UIAngularResolutions :
          domInputs' = [domInputs EXCEPT !.angularResolution = value]
     \/ \E value \in UIThresholds :
          domInputs' = [domInputs EXCEPT !.threshold = value]
  /\ IF state.image = NoImage
       THEN UNCHANGED <<processingTimeout, timers, downloadVisible, burst>>
       ELSE /\ downloadVisible' = FALSE
            /\ processingTimeout' =
                 scheduleProcessing(processingTimeout, timers).processingTimeout
            /\ timers' = scheduleProcessing(processingTimeout, timers).timers
            /\ burst' = [events |-> IF burst.runs > 0 THEN 1 ELSE Min(burst.events + 1, 2),
                         since |-> 0,
                         runs |-> 0]
  /\ UNCHANGED <<state, geometryInputs, loads>>
  /\ UNCHANGED <<exportVars, imageVars, normalVars, stlVars>>

\* a timer is due: the callback of scheduleProcessing (185-188)
TimerFires ==
  /\ \E id \in DOMAIN timers :
       /\ timers[id] = 0
       /\ timers' = clearTimeout(timers, id)
  /\ processingTimeout' = 0
  /\ IF state.image = NoImage
       THEN UNCHANGED <<state, domInputs, downloadVisible>>
       ELSE /\ state' = [state EXCEPT !.mask = runProcessing(state.image, domInputs).mask]
            /\ downloadVisible' = runProcessing(state.image, domInputs).visible
            /\ domInputs' = getProcessingParams(domInputs)
  /\ burst' = [burst EXCEPT !.runs = Min(burst.runs + 1, 2)]
  /\ UNCHANGED <<geometryInputs, loads>>
  /\ UNCHANGED <<exportVars, imageVars, normalVars, stlVars>>

\* tick milliseconds pass; a timer that is due fires before time moves on
Tick ==
  /\ \A id \in DOMAIN timers : timers[id] > 0
  /\ DOMAIN timers # {} \/ burst.since < debounceDelay + tick
  /\ timers' = [id \in DOMAIN timers |-> timers[id] - tick]
  /\ burst' = [burst EXCEPT !.since = Min(burst.since + tick, debounceDelay + tick)]
  /\ UNCHANGED <<state, processingTimeout, domInputs, geometryInputs, downloadVisible,
                 loads>>
  /\ UNCHANGED <<exportVars, imageVars, normalVars, stlVars>>

NextUI == UploadChange \/ LoadFinished \/ LoadFailed \/ RangeInput \/ TimerFires \/ Tick

SpecUI == InitUI /\ [][NextUI]_vars

\* the page with bar.png loaded and processed, the download button shown:
\* the six number inputs and the format select are set, and the button is
\* clicked.  The number inputs have no listener, so setting one changes
\* nothing else on the page; outcome is what the click made with the
\* values now in the inputs did, and is forgotten when a value is set
InitDownload ==
  /\ \E inputs \in InputValues :
       /\ runProcessing(pictureOf("bar.png"), inputs).visible
       /\ domInputs = getProcessingParams(inputs)
       /\ state = [image |-> pictureOf("bar.png"),
                   mask |-> runProcessing(pictureOf("bar.png"), inputs).mask,
                   fileName |-> "bar.png"]
  /\ downloadVisible = TRUE
  /\ geometryInputs = DefaultGeometryInputs
  /\ processingTimeout = 0
  /\ timers = <<>>
  /\ loads = {}
  /\ burst = NoBurst
  /\ cutout = SolidMask
  /\ params = BaseParams
  /\ format \in {"binary", "ascii"}
  /\ outcome = NotRun
  /\ remembered = NoCall
  /\ ImageIdle
  /\ NormalIdle
  /\ StlIdle

\* a value is typed into one of the six number inputs
NumberInput ==
  /\ \E field \in DOMAIN TypedNumbers :
       \E value \in TypedNumbers[field] :
         /\ value # geometryInputs[field]
         /\ geometryInputs' = [geometryInputs EXCEPT ![field] = value]
  /\ outcome' = NotRun
  /\ UNCHANGED <<cutout, params, format, remembered>>
  /\ UNCHANGED <<state, processingTimeout, timers, domInputs, downloadVisible, loads, burst>>
  /\ UNCHANGED <<imageVars, normalVars, stlVars>>

\* a click on the download button (222-230), which is there to click while
\* it is not hidden: the inputs are read and written back, and with a mask
\* exportSTL is called in the format of the select
DownloadClick ==
  /\ downloadVisible
  /\ LET geometry == getGeometryParams(geometryInputs, domInputs)
     IN  /\ geometryInputs' = numberInputsAfter(geometry)
         /\ domInputs' = [domInputs EXCEPT !.angularResolution = geometry.pillarCount]
         /\ IF state.mask = NoMask
              THEN UNCHANGED outcome
              ELSE outcome' = exportSTL(state.mask, geometry, format)
  /\ UNCHANGED <<cutout, params, format, remembered>>
  /\ UNCHANGED <<state, processingTimeout, timers, downloadVisible, loads, burst>>
  /\ UNCHANGED <<imageVars, normalVars, stlVars>>

NextDownload == NumberInput \/ DownloadClick

SpecDownload == InitDownload /\ [][NextDownload]_vars

(***************************************************************************)
(* Claims about exportSTL                                                  *)
(***************************************************************************)
Called == outcome.status # "none"

Returned == outcome.status = "returned"

Accepted(p) == validateGeometryParams(p) = "ok"

\* the edge statistics the inspection tool reports for the returned mesh
Stats == readBinarySTL(generateSTL(outcome.triangles))

\* C1: for every mask of at least 3 x 3 cells and every accepted parameter
\* record, every edge of the mesh belongs to exactly 2 triangles: none to
\* 1 only, none to more than 2
C1_Manifold ==
  (Called /\ cutout.rows >= 3 /\ cutout.columns >= 3 /\ Accepted(params))
    => /\ Returned
       /\ Stats.error = "ok"
       /\ Stats.openEdges = 0
       /\ Stats.overEdges = 0

\* C2: the binary buffer of N triangles, and the Blob made of it, is
\* 84 + 50 * N bytes long
C2_BinarySize ==
  (Returned /\ format = "binary")
    => /\ outcome.blob.content.byteLength = 84 + 50 * Len(outcome.triangles)
       /\ outcome.blob.size = 84 + 50 * Len(outcome.triangles)
       /\ outcome.blob.content.end = outcome.blob.size

C2_Witness == Returned /\ format = "binary" /\ Len(outcome.triangles) > 0

\* the two triangles of quad q are in the list, next to each other
HasQuad(triangles, q) ==
  \E i \in 1..(Len(triangles) - 1) : triangles[i] = q[1] /\ triangles[i + 1] = q[2]

HasNoneOf(triangles, q) ==
  \A i \in 1..Len(triangles) : triangles[i] # q[1] /\ triangles[i] # q[2]

EmitsBothFaces(row, col) ==
  /\ HasQuad(outcome.triangles, outerFace(cutout, params, row, col))
  /\ HasQuad(outcome.triangles, innerFace(cutout, params, row, col))

EmitsNoFace(row, col) ==
  /\ HasNoneOf(outcome.triangles, outerFace(cutout, params, row, col))
  /\ HasNoneOf(outcome.triangles, innerFace(cutout, params, row, col))

Interior(row, col) ==
  /\ 0 < row
  /\ row < cutout.rows - 1
  /\ ~pillarColumns(cutout.columns, params)[col]

\* C3 as stated: an interior cell outside the pillars gets its outer and
\* inner face iff data[row][col] is true, and is an opening iff it is
\* false; every other cell gets both faces
C3_FacesWhereTrue ==
  Returned =>
    \A cell \in Cells(cutout.columns, cutout.rows) :
      IF Interior(cell[1], cell[2])
        THEN IF cutout.data[cell[1]][cell[2]]
               THEN EmitsBothFaces(cell[1], cell[2])
               ELSE EmitsNoFace(cell[1], cell[2])
        ELSE EmitsBothFaces(cell[1], cell[2])

\* C3 amended: an interior cell outside the pillars gets its outer and inner
\* face iff data[row][col] is false (the mask marks cutouts), and is an
\* opening iff it is true; every other cell gets both faces
C3_FacesWhereFalse ==
  Returned =>
    \A cell \in Cells(cutout.columns, cutout.rows) :
      IF Interior(cell[1], cell[2])
        THEN IF cutout.data[cell[1]][cell[2]]
               THEN EmitsNoFace(cell[1], cell[2])
               ELSE EmitsBothFaces(cell[1], cell[2])
        ELSE EmitsBothFaces(cell[1], cell[2])

\* a mesh with an opening, a kept interior cell, and a marked cell that is
\* kept all the same (on an end row or in a pillar)
C3_Witness ==
  /\ Returned
  /\ \E cell \in Cells(cutout.columns, cutout.rows) :
       Interior(cell[1], cell[2]) /\ cutout.data[cell[1]][cell[2]]
  /\ \E cell \in Cells(cutout.columns, cutout.rows) :
       Interior(cell[1], cell[2]) /\ ~cutout.data[cell[1]][cell[2]]
  /\ \E cell \in Cells(cutout.columns, cutout.rows) :
       ~Interior(cell[1], cell[2]) /\ cutout.data[cell[1]][cell[2]]

\* the condition of C4, from the claim
C4_Rejects(p) ==
  \/ \E k \in ParamNames : ~IsFinite(p[k])
  \/ /\ \A k \in ParamNames : IsFinite(p[k])
     /\ \/ p.domeDiameter <= 0
        \/ p.domeHeight <= 0
        \/ p.wallThickness <= 0
        \/ p.wallHeight <= 0
        \/ p.ledMountDiameter <= 0
        \/ p.ledMountHeight <= 0
        \/ p.pillarCount < 3 * Scale
        \/ 2 * p.wallThickness >= p.domeDiameter
        \/ p.ledMountDiameter + 2 * p.wallThickness >= p.domeDiameter

ValidationErrors ==
  {"Geometry parameters must be valid numbers.",
   "Dome dimensions must be positive.",
   "Wall thickness must be greater than 0.",
   "Wall height must be greater than 0.",
   "Tea light mount dimensions must be positive.",
   "Pillar count must be at least 3.",
   "Wall thickness must be smaller than the dome radius.",
   "Tea light hole must be smaller than the dome diameter."}

\* C4: the validation run by exportSTL throws iff a parameter is
\* non-finite, a length is <= 0, pillarCount < 3, wallThickness >= radius or
\* ledMountDiameter/2 + wallThickness >= radius; every other record passes
C4_ValidationIff ==
  Called =>
    ((outcome.status = "thrown" /\ outcome.error \in ValidationErrors)
       <=> C4_Rejects(params))

\* rejected by the last test alone, at equality: 28.4 + 1.6 = 30
C4_Witness ==
  /\ outcome.status = "thrown"
  /\ \A k \in ParamNames : IsFinite(params[k]) /\ params[k] > 0
  /\ params.pillarCount >= 3 * Scale
  /\ 2 * params.wallThickness < params.domeDiameter
  /\ params.ledMountDiameter + 2 * params.wallThickness = params.domeDiameter

\* C5: exportSTL is all-or-nothing.  Rejected parameters, or a mask under
\* 3 x 3, make it throw with no triangle emitted and no Blob; the parameters
\* are validated before the mask is looked at; a success returns the
\* complete mesh
C5_AllOrNothing ==
  Called =>
    /\ ~Accepted(params) =>
         /\ outcome.status = "thrown"
         /\ outcome.error \in ValidationErrors
         /\ outcome.triangles = <<>>
         /\ "blob" \notin DOMAIN outcome
    /\ (Accepted(params) /\ (cutout.rows < 3 \/ cutout.columns < 3)) =>
         /\ outcome.status = "thrown"
         /\ outcome.error = MaskError
         /\ outcome.triangles = <<>>
         /\ "blob" \notin DOMAIN outcome
    /\ Returned =>
         /\ Accepted(params) /\ cutout.rows >= 3 /\ cutout.columns >= 3
         /\ "blob" \in DOMAIN outcome
         /\ outcome.triangles = generateGeometry(cutout, params).triangles
         /\ Len(outcome.triangles) > 0

\* rejected parameters together with a mask that is too small
C5_Witness ==
  /\ outcome.status = "thrown"
  /\ ~Accepted(params)
  /\ cutout.rows < 3

\* C10: the Blob is of type application/sla in both formats
C10_MediaType == Returned => outcome.blob.type = "application/sla"

C10_Witness == Returned /\ format = "ascii" /\ outcome.blob.type = "application/sla"

(***************************************************************************)
(* Claims about processImage                                               *)
(***************************************************************************)
Processed == processed.result.status # "none"

MaskReturned == processed.result.status = "returned"

\* C6 as stated: a finite angularResolution below 3 is rejected with the
\* angular-resolution error, and a mask is returned only when the requested
\* angularResolution is at least 3
C6_BelowThreeRejected ==
  Processed =>
    /\ (IsFinite(processed.call.angularResolution)
          /\ processed.call.angularResolution < 3 * Scale)
         => processed.result.error = ResolutionError
    /\ MaskReturned =>
         /\ IsFinite(processed.call.angularResolution)
         /\ processed.call.angularResolution >= 3 * Scale

\* C6 amended: with a finite threshold, a finite angularResolution that
\* rounds to less than 3 (below 2.5) is rejected with the angular-resolution
\* error, and a mask is returned only when it rounds to at least 3
C6_RoundedBelowThreeRejected ==
  Processed =>
    /\ (IsFinite(processed.call.angularResolution)
          /\ IsFinite(processed.call.threshold)
          /\ 2 * processed.call.angularResolution < 5 * Scale)
         => /\ processed.result.status = "thrown"
            /\ processed.result.error = ResolutionError
    /\ MaskReturned =>
         /\ IsFinite(processed.call.angularResolution)
         /\ 2 * processed.call.angularResolution >= 5 * Scale

\* a mask returned for a request of 2.5
C6_Witness ==
  /\ MaskReturned
  /\ processed.call.angularResolution < 3 * Scale
  /\ roundedResolution(processed.call.angularResolution) = 3

HasSolid(binary) == \E y \in DOMAIN binary : \E x \in DOMAIN binary[y] : binary[y][x]

HasNonSolid(binary) == \E y \in DOMAIN binary : \E x \in DOMAIN binary[y] : ~binary[y][x]

\* the call got past the parameter tests
ParamsPassed ==
  /\ Processed
  /\ IsFinite(processed.call.angularResolution)
  /\ IsFinite(processed.call.threshold)
  /\ 2 * processed.call.angularResolution >= 5 * Scale

\* C7: a field without solid pixel fails with the message that says to
\* lower the threshold, a field without non-solid pixel with the message
\* that says to raise it, and a mask is returned only for a field with both
C7_DegenerateRejected ==
  ParamsPassed =>
    /\ "binary" \in DOMAIN processed.result
    /\ ~HasSolid(processed.result.binary) =>
         /\ processed.result.status = "thrown"
         /\ processed.result.error = AllWhiteError
    /\ (HasSolid(processed.result.binary) /\ ~HasNonSolid(processed.result.binary)) =>
         /\ processed.result.status = "thrown"
         /\ processed.result.error = AllBlackError
    /\ MaskReturned =>
         /\ HasSolid(processed.result.binary)
         /\ HasNonSolid(processed.result.binary)

C7_Witness ==
  /\ processed.result.status = "thrown"
  /\ processed.result.error = AllBlackError
  /\ previous.result.status = "thrown"
  /\ previous.result.error = AllWhiteError

DarkCells(mask) ==
  {cell \in Cells(mask.columns, mask.rows) : mask.data[cell[1]][cell[2]]}

\* C8: for one picture and resolution, a cell that is true at threshold t1
\* is true at every t2 >= t1, so the number of true cells does not go down
\* when the threshold goes up
C8_ThresholdMonotone ==
  (/\ previous.result.status = "returned"
   /\ processed.result.status = "returned"
   /\ previous.call.threshold <= processed.call.threshold)
    => /\ DarkCells(previous.result.mask) \subseteq DarkCells(processed.result.mask)
       /\ Cardinality(DarkCells(previous.result.mask))
            <= Cardinality(DarkCells(processed.result.mask))

\* the threshold went up between two runs and the mask gained a cell
C8_Witness ==
  /\ previous.result.status = "returned"
  /\ processed.result.status = "returned"
  /\ previous.call.threshold < processed.call.threshold
  /\ DarkCells(previous.result.mask) # {}
  /\ DarkCells(previous.result.mask) # DarkCells(processed.result.mask)

\* C9: toBinary marks pixel (x, y) solid iff alpha >= 128 and
\* 0.299 R + 0.587 G + 0.114 B < threshold, in a field of height rows of
\* width entries
C9_ToBinary ==
  ParamsPassed =>
    /\ "binary" \in DOMAIN processed.result
    /\ LET binary == processed.result.binary
           limit == clamp(processed.call.threshold, 0, 255 * Scale)
       IN  /\ DOMAIN binary = 0..(image.height - 1)
           /\ \A y \in DOMAIN binary :
                /\ DOMAIN binary[y] = 0..(image.width - 1)
                /\ \A x \in DOMAIN binary[y] :
                     binary[y][x] <=>
                       /\ image.data[y][x][4] >= 128
                       /\ 299 * image.data[y][x][1] + 587 * image.data[y][x][2]
                            + 114 * image.data[y][x][3] < limit

\* a field with a solid pixel whose alpha is exactly 128 and a non-solid one
C9_Witness ==
  /\ ParamsPassed
  /\ "binary" \in DOMAIN processed.result
  /\ \E y \in DOMAIN processed.result.binary : \E x \in DOMAIN processed.result.binary[y] :
       processed.result.binary[y][x] /\ image.data[y][x][4] = 128
  /\ HasNonSolid(processed.result.binary)

(***************************************************************************)
(* The 4 x 8 scenario                                                      *)
(***************************************************************************)
\* C11: the fully solid mask of 4 rows by 8 columns with the default lamp is
\* exported with N > 0 triangles, every edge in exactly 2 triangles, and
\* 84 + 50 * N bytes of binary output
C11_Scenario ==
  (Called /\ cutout = ScenarioMask /\ params = BaseParams)
    => /\ Returned
       /\ Len(outcome.triangles) > 0
       /\ Stats.error = "ok"
       /\ Stats.triangles = Len(outcome.triangles)
       /\ Stats.openEdges = 0
       /\ Stats.overEdges = 0
       /\ generateSTL(outcome.triangles).byteLength = 84 + 50 * Len(outcome.triangles)
       /\ format = "binary" => outcome.blob.size = 84 + 50 * Len(outcome.triangles)

C11_Witness ==
  /\ Returned
  /\ cutout = ScenarioMask
  /\ params = BaseParams
  /\ format = "binary"
  /\ Stats.edges > 0

(***************************************************************************)
(* Claims about calculateNormal                                            *)
(***************************************************************************)
NormalComputed == normal.status = "returned"

\* the cross product of the triangle's edges, in millionths
FacetCross ==
  cross(<<facet[2][1] - facet[1][1], facet[2][2] - facet[1][2], facet[2][3] - facet[1][3]>>,
        <<facet[3][1] - facet[1][1], facet[3][2] - facet[1][2], facet[3][3] - facet[1][3]>>)

\* a cross product shorter than 1e-5 (10 millionths) counts as near zero
NearZeroSquared == (Scale \div 100) * (Scale \div 100)

NearZero == squaredLength(FacetCross) < NearZeroSquared

\* C12: calculateNormal returns the exact zero vector for every triangle
\* whose cross product has zero or near-zero length, without dividing by
\* that length, and the cross product scaled to unit length for every
\* other triangle
C12_ZeroWhenNearZero ==
  NormalComputed =>
    IF NearZero
      THEN normal.vector = Origin /\ ~normal.divided
      ELSE normal.vector = FacetCross /\ normal.divided

(***************************************************************************)
(* Claims about the page                                                   *)
(***************************************************************************)
\* C13: after range input events on a loaded picture at most one
\* processing request is pending (an event cancels the pending one), a
\* burst of events less than 150 ms apart gets exactly one processing run,
\* 150 ms after its last event, and state.mask is then the result for the
\* latest values of the inputs, or null if that processing failed
C13_SingleFlight ==
  /\ Cardinality(DOMAIN timers) <= 1
  /\ DOMAIN timers = IF processingTimeout = 0 THEN {} ELSE {processingTimeout}
  /\ burst.events > 0 =>
       /\ burst.runs <= 1
       /\ burst.runs = 0 =>
            /\ processingTimeout # 0
            /\ timers[processingTimeout] = debounceDelay - burst.since
       /\ burst.runs = 1 =>
            /\ burst.since >= debounceDelay
            /\ processingTimeout = 0
            /\ state.mask = runProcessing(state.image, domInputs).mask

\* two events in one burst, then one run that produced a mask
C13_Witness ==
  /\ burst.events = 2
  /\ burst.runs = 1
  /\ state.mask # NoMask

(***************************************************************************)
(* Claims about the binary round trip                                      *)
(***************************************************************************)
WasRead == readBack.status = "returned"

Coordinates3 == (1..Len(mesh)) \X (1..3) \X (1..3)

\* the float32 read is within 1e-5 of the number written: residue / 1000
\* spacings of 2^(exponent - 23) are at most 1e-5
Within1e5(f) == f.exponent <= 6 \/ f.residue * 100 <= Pow2(23 - f.exponent)

ReadAsWritten ==
  /\ readBack.stats.error = "ok"
  /\ readBack.stats.triangles = Len(mesh)
  /\ Len(readBack.vertices) = Len(mesh)
  /\ \A at \in Coordinates3 :
       /\ readBack.vertices[at[1]][at[2]] # Unwritten
       /\ readBack.vertices[at[1]][at[2]][at[3]] = float32(mesh[at[1]][at[2]][at[3]])

\* C14 as stated: reading the buffer of generateSTL raises no size error and
\* gives the same triangle count and, per triangle in order, the three
\* vertices written, each coordinate within 1e-5
C14_RoundTripWithin1e5 ==
  WasRead =>
    /\ ReadAsWritten
    /\ \A at \in Coordinates3 : Within1e5(readBack.vertices[at[1]][at[2]][at[3]])

\* C14 amended: ... each coordinate read is the float32 nearest to the one
\* written, at most half a float32 spacing away, which is within 1e-5 for
\* coordinates of magnitude below 256
C14_RoundTripNearestFloat32 ==
  WasRead =>
    /\ ReadAsWritten
    /\ \A at \in Coordinates3 :
         LET f == readBack.vertices[at[1]][at[2]][at[3]]
         IN  /\ 2 * f.residue <= Scale
             /\ Abs(mesh[at[1]][at[2]][at[3]]) < 256 * Scale => Within1e5(f)

\* two triangles read back, one coordinate 200.1 and one 260.2
C14_Witness ==
  /\ WasRead
  /\ Len(mesh) = 2
  /\ \E at \in Coordinates3 : mesh[at[1]][at[2]][at[3]] = (2001 * Scale) \div 10
  /\ \E at \in Coordinates3 :
       /\ mesh[at[1]][at[2]][at[3]] = (2602 * Scale) \div 10
       /\ ~Within1e5(readBack.vertices[at[1]][at[2]][at[3]])

(***************************************************************************)
(* Claims about the mapping of mask rows                                   *)
(***************************************************************************)
\* C15: the row of the mask sampled at the centre of the picture (radius 0)
\* is the wall band on the base and the row sampled at the edge (largest
\* radius) is the band under the dome; from row to row the sampling radius
\* and the height of the band go down together
C15_CentreToBase ==
  MaskReturned =>
    LET mask == processed.result.mask
        maxRadius == maxRadiusOf(image)
        last == mask.rows - 1
    IN  /\ radiusOfRow(maxRadius, mask.rows, last) = 0
        /\ zBottomOf(mask, BaseParams, last) = baseThicknessOf(BaseParams)
        /\ radiusOfRow(maxRadius, mask.rows, 0) = maxRadius
        /\ zTopOf(mask, BaseParams, 0) = wallTopOf(BaseParams)
        /\ \A r1 \in 0..last : \A r2 \in 0..last :
             r1 < r2 =>
               /\ radiusOfRow(maxRadius, mask.rows, r1) > radiusOfRow(maxRadius, mask.rows, r2)
               /\ zTopOf(mask, BaseParams, r1) > zTopOf(mask, BaseParams, r2)
               /\ zBottomOf(mask, BaseParams, r1) > zBottomOf(mask, BaseParams, r2)
               /\ zBottomOf(mask, BaseParams, r1) >= zTopOf(mask, BaseParams, r2)

\* a mask of at least 3 rows whose rows differ, from a picture with a centre
C15_Witness ==
  /\ MaskReturned
  /\ processed.result.mask.rows >= 3
  /\ maxRadiusOf(image) > 0
  /\ processed.result.mask.data[0] # processed.result.mask.data[processed.result.mask.rows - 1]

(***************************************************************************)
(* Claims about the text format                                            *)
(***************************************************************************)
AsciiReturned == Returned /\ format = "ascii"

\* the line of the text at which facet i starts
facetLine(i) == 7 * (i - 1) + 2

\* C16: the text starts with 'solid shadecaster', holds for each triangle,
\* in the order of the list, the seven lines facet normal, outer loop,
\* vertex v1, vertex v2, vertex v3, endloop, endfacet, and ends with
\* 'endsolid shadecaster' under the same name: 7N + 2 lines in all
C16_AsciiLayout ==
  AsciiReturned =>
    LET text == outcome.blob.content
        N == Len(outcome.triangles)
    IN  /\ Len(text) = 7 * N + 2
        /\ outcome.blob.lines = 7 * N + 2
        /\ text[1] = <<"solid", "shadecaster">>
        /\ Len(text[7 * N + 2]) = 2
        /\ text[7 * N + 2][1] = "endsolid"
        /\ text[7 * N + 2][2] = text[1][2]
        /\ \A i \in 1..N :
             /\ text[facetLine(i)] = <<"facet normal">>
             /\ text[facetLine(i) + 1] = <<"outer loop">>
             /\ \A k \in 1..3 :
                  /\ Len(text[facetLine(i) + 1 + k]) = 2
                  /\ text[facetLine(i) + 1 + k][1] = "vertex"
                  /\ text[facetLine(i) + 1 + k][2] = outcome.triangles[i][k]
             /\ text[facetLine(i) + 5] = <<"endloop">>
             /\ text[facetLine(i) + 6] = <<"endfacet">>

C16_Witness ==
  /\ AsciiReturned
  /\ Len(outcome.triangles) > 100
  /\ Len(outcome.blob.content) = 7 * Len(outcome.triangles) + 2

(***************************************************************************)
(* Claims about repeated calls                                             *)
(***************************************************************************)
Repeated == outcome # NotRun /\ remembered.since > 0 /\ sameArguments(remembered)

corners(t) == {t[1], t[2], t[3]}

\* the number of cap quads of the returned mesh on the boundary that quad q
\* covers: a quad is two triangles next to each other in the list, in
\* either winding
CapQuadsOn(q) ==
  LET onBoundary == {i \in 1..Len(outcome.triangles) :
                       corners(outcome.triangles[i]) \in {corners(q[1]), corners(q[2])}}
      starts == {i \in onBoundary :
                   /\ i + 1 \in onBoundary
                   /\ corners(outcome.triangles[i]) # corners(outcome.triangles[i + 1])}
  IN  IF Cardinality(onBoundary) = 2 * Cardinality(starts)
        THEN Cardinality(starts) ELSE 0 - 1

\* the boundaries of cell (row, col) towards the previous and the next
\* column and towards the row above and the row below
boundaryPrev(row, col) ==
  addRadialFace(cutout, params, col, zBottomOf(cutout, params, row),
                zTopOf(cutout, params, row), TRUE)

boundaryNext(row, col) ==
  addRadialFace(cutout, params, col + 1, zBottomOf(cutout, params, row),
                zTopOf(cutout, params, row), FALSE)

boundaryAbove(row, col) ==
  addHorizontalFace(cutout, params, zTopOf(cutout, params, row), col, col + 1, FALSE)

boundaryBelow(row, col) ==
  addHorizontalFace(cutout, params, zBottomOf(cutout, params, row), col, col + 1, TRUE)

Solid(row, col) == isSolid(cutout, params, row, col)

prevColOf(col) == (col - 1 + cutout.columns) % cutout.columns

nextColOf(col) == (col + 1) % cutout.columns

\* one cap where the neighbour is open, none where it is solid
CapsTowards(neighbourSolid) == IF neighbourSolid THEN 0 ELSE 1

\* the only open cell of the wall, its four neighbours solid
OnlyOpening(row, col) ==
  /\ ~Solid(row, col)
  /\ \A cell \in Cells(cutout.columns, cutout.rows) :
       cell # <<row, col>> => Solid(cell[1], cell[2])

\* the edge statistics of the mesh of the same lamp without any cutout
SolidStats ==
  readBinarySTL(generateSTL(
    generateGeometry(MaskOf(cutout.columns, cutout.rows, {}), params).triangles))

\* C18: a solid wall cell has, towards each of its four neighbours (the
\* previous and the next column around the seam, the row above and the row
\* below where there is one), exactly one cap quad from the outer to the
\* inner radius when the neighbour is open and none when it is solid; a
\* single open cell between four solid neighbours gets exactly 4 cap quads
\* and the mesh stays manifold: it has no open and no overused edge that the
\* mesh without the cutout does not have, and none at all for the default
\* lamp
C18_CapsAroundOpenings ==
  Returned =>
    \A cell \in Cells(cutout.columns, cutout.rows) :
      LET row == cell[1]
          col == cell[2]
      IN  /\ Solid(row, col) =>
               /\ CapQuadsOn(boundaryPrev(row, col)) = CapsTowards(Solid(row, prevColOf(col)))
               /\ CapQuadsOn(boundaryNext(row, col)) = CapsTowards(Solid(row, nextColOf(col)))
               /\ row > 0 =>
                    CapQuadsOn(boundaryAbove(row, col)) = CapsTowards(Solid(row - 1, col))
               /\ row < cutout.rows - 1 =>
                    CapQuadsOn(boundaryBelow(row, col)) = CapsTowards(Solid(row + 1, col))
          /\ OnlyOpening(row, col) =>
               /\ CapQuadsOn(boundaryPrev(row, col)) + CapQuadsOn(boundaryNext(row, col))
                    + CapQuadsOn(boundaryAbove(row, col))
                    + CapQuadsOn(boundaryBelow(row, col)) = 4
               /\ Stats.error = "ok"
               /\ Stats.triangles = SolidStats.triangles - 4 + 8
               /\ Stats.openEdges = SolidStats.openEdges
               /\ Stats.overEdges = SolidStats.overEdges
               /\ params = BaseParams => Stats.nonManifoldEdges = 0

\* the default lamp with a single opening, one cap on each of its sides
C18_Witness ==
  /\ Returned
  /\ params = BaseParams
  /\ \E cell \in Cells(cutout.columns, cutout.rows) :
       /\ OnlyOpening(cell[1], cell[2])
       /\ CapQuadsOn(boundaryPrev(cell[1], cell[2])) = 1
       /\ CapQuadsOn(boundaryNext(cell[1], cell[2])) = 1
       /\ CapQuadsOn(boundaryAbove(cell[1], cell[2])) = 1
       /\ CapQuadsOn(boundaryBelow(cell[1], cell[2])) = 1
  /\ Stats.nonManifoldEdges = 0

(***************************************************************************)
(* Claims about the roof                                                   *)
(***************************************************************************)
\* the number of triangles of the returned mesh that have the edge from a
\* to b
TrianglesOnEdge(a, b) ==
  Cardinality({i \in 1..Len(outcome.triangles) :
                 {a, b} \subseteq corners(outcome.triangles[i])})

\* segment i of the top ring of the inner wall, at z = wallTop
wallTopRing(i) ==
  <<polarToCartesian(cutout.columns, innerRadiusOf(params), i, wallTopOf(params)),
    polarToCartesian(cutout.columns, innerRadiusOf(params), i + 1, wallTopOf(params))>>

\* segment i of the inner ring of the pocket lip
lipInnerRing(i) ==
  <<polarToCartesian(cutout.columns, innerHoleRadiusOf(params), i, pocketBottomOf(params)),
    polarToCartesian(cutout.columns, innerHoleRadiusOf(params), i + 1, pocketBottomOf(params))>>

\* C19: for every accepted parameter record the roof is closed: the inner
\* dome is built, from the top ring of the inner wall to the inner ring of
\* the pocket lip, and no edge of those rings belongs to one triangle only
C19_RoofClosed ==
  (Called /\ cutout.rows >= 3 /\ cutout.columns >= 3 /\ Accepted(params))
    => /\ Returned
       /\ innerStepsOf(cutout, params) > 0
       /\ \A i \in 0..(cutout.columns - 1) :
            /\ TrianglesOnEdge(wallTopRing(i)[1], wallTopRing(i)[2]) = 2
            /\ TrianglesOnEdge(lipInnerRing(i)[1], lipInnerRing(i)[2]) = 2

(***************************************************************************)
(* Claims about the pillars                                                *)
(***************************************************************************)
\* column col is a pillar column, solid and built on every row
PillarRun(col) ==
  /\ pillarColumns(cutout.columns, params)[col]
  /\ \A row \in 0..(cutout.rows - 1) : Solid(row, col) /\ EmitsBothFaces(row, col)

\* C20: for every mask of at least 3 columns and every accepted parameter
\* record at least one column is a pillar column, solid on every row, so
\* that the wall runs from its bottom row to its top row whatever the mask
\* cuts out
C20_PillarColumn ==
  (Called /\ cutout.rows >= 3 /\ cutout.columns >= 3 /\ Accepted(params))
    => /\ Returned
       /\ \E col \in 0..(cutout.columns - 1) : PillarRun(col)

(***************************************************************************)
(* Claims about the mesh being in one piece                                *)
(***************************************************************************)
\* triangles i and j of the returned mesh have an edge in common
ShareEdge(i, j) ==
  Cardinality(corners(outcome.triangles[i]) \cap corners(outcome.triangles[j])) >= 2

\* the triangles linked to those of frontier by chains of shared edges,
\* visited being the ones already found
RECURSIVE LinkedFrom(_, _)
LinkedFrom(frontier, visited) ==
  IF frontier = {} THEN visited
  ELSE LET found == {j \in (1..Len(outcome.triangles)) \ visited :
                       \E i \in frontier : ShareEdge(i, j)}
       IN  LinkedFrom(found, visited \cup found)

\* C21: for every mask of at least 3 x 3 cells and every accepted parameter
\* record the returned triangles are one connected piece: every triangle
\* is linked to the first one by a chain of triangles sharing edges
C21_OnePiece ==
  (Called /\ cutout.rows >= 3 /\ cutout.columns >= 3 /\ Accepted(params))
    => /\ Returned
       /\ LinkedFrom({1}, {1}) = 1..Len(outcome.triangles)

(***************************************************************************)
(* Claims about the winding                                                *)
(***************************************************************************)
\* the edges of a triangle in the direction its vertex order runs
directed(t) == {<<t[1], t[2]>>, <<t[2], t[3]>>, <<t[3], t[1]>>}

\* triangles i and j of the returned mesh run along a common edge in the
\* same direction
SameDirection(i, j) == directed(outcome.triangles[i]) \cap directed(outcome.triangles[j]) # {}

\* the bottom edge of the band of cell (row, col) on the skin of radius r,
\* from the cell's first angle to its second
bottomEdge(r, row, col) ==
  <<polarToCartesian(cutout.columns, r, col, zBottomOf(cutout, params, row)),
    polarToCartesian(cutout.columns, r, col + 1, zBottomOf(cutout, params, row))>>

reversed(e) == <<e[2], e[1]>>

\* some triangle of the returned mesh whose corners are all on the skin of
\* radius r runs along directed edge e
SkinRunsAlong(r, e) ==
  \E i \in 1..Len(outcome.triangles) :
    /\ e \in directed(outcome.triangles[i])
    /\ \A k \in 1..3 : outcome.triangles[i][k][1] = r

\* C22: the inner face of a solid wall cell is wound opposite to its outer
\* face: the outer face runs along its bottom edge in the direction of
\* growing angle (normal away from the axis) and the inner face against it
\* (normal towards the axis), and any two triangles of the mesh that share
\* an edge run along it in opposite directions
C22_OppositeWinding ==
  Returned =>
    /\ \A cell \in Cells(cutout.columns, cutout.rows) :
         Solid(cell[1], cell[2]) =>
           /\ SkinRunsAlong(outerRadiusOf(params),
                            bottomEdge(outerRadiusOf(params), cell[1], cell[2]))
           /\ SkinRunsAlong(innerRadiusOf(params),
                            reversed(bottomEdge(innerRadiusOf(params), cell[1], cell[2])))
    /\ \A i \in 1..Len(outcome.triangles) : \A j \in 1..Len(outcome.triangles) :
         i # j => ~SameDirection(i, j)

(***************************************************************************)
(* Claims about the end rows of the mask                                   *)
(***************************************************************************)
\* C23 as stated: in every mask processImage returns, every cell of row 0
\* and of row rows-1 is true, whatever the picture
C23_EndRowsTrue ==
  MaskReturned =>
    \A col \in 0..(processed.result.mask.columns - 1) :
      /\ processed.result.mask.data[0][col]
      /\ processed.result.mask.data[processed.result.mask.rows - 1][col]

\* C23 amended: the mask processImage returns holds the sampled values on
\* row 0 and on row rows-1 as on every other row (true where the picture is
\* dark); it is generateGeometry that takes every cell of these two rows as
\* solid, whatever the mask holds there
C23_EndRowsSolidInGeometry ==
  MaskReturned =>
    LET mask == processed.result.mask
        threshold == processed.result.threshold
    IN  \A col \in 0..(mask.columns - 1) :
          /\ mask.data[0][col] = buildRadialMask(image, threshold, mask.columns, mask.rows)[0][col]
          /\ mask.data[mask.rows - 1][col]
               = buildRadialMask(image, threshold, mask.columns, mask.rows)[mask.rows - 1][col]
          /\ isSolid(mask, BaseParams, 0, col)
          /\ isSolid(mask, BaseParams, mask.rows - 1, col)

\* a mask whose end rows differ and hold a cutout mark outside the pillars
C23_Witness ==
  /\ MaskReturned
  /\ \E col \in 0..(processed.result.mask.columns - 1) :
       /\ ~pillarColumns(processed.result.mask.columns, BaseParams)[col]
       /\ processed.result.mask.data[processed.result.mask.rows - 1][col]
       /\ ~processed.result.mask.data[0][col]
       /\ isSolid(processed.result.mask, BaseParams, processed.result.mask.rows - 1, col)

(***************************************************************************)
(* Claims about the layout of the binary file                              *)
(***************************************************************************)
Generated == stlBuffer # NoBuffer

\* the unsigned 32-bit integer that four bytes hold when the byte at the
\* lowest address is the least significant one
littleEndianValue(bytes) ==
  bytes[1] + 256 * bytes[2] + 256 * 256 * bytes[3] + 256 * 256 * 256 * bytes[4]

\* C24: bytes 80-83 hold N as a little-endian unsigned 32-bit integer; the
\* record of triangle i (from 0) is the 50 bytes from 84 + 50 * i: its
\* normal, its three vertices in order, then a 2-byte attribute of 0; a
\* record starts where the one before ends and the cursor ends at the end
\* of the buffer
C24_RecordLayout ==
  Generated =>
    LET N == Len(mesh)
    IN  /\ stlBuffer.countField.at = 80
        /\ Len(stlBuffer.countField.bytes) = 4
        /\ littleEndianValue(stlBuffer.countField.bytes) = N
        /\ \A k \in 1..4 : stlBuffer.countField.bytes[k] \in 0..255
        /\ Len(stlBuffer.records) = N
        /\ \A i \in 1..N :
             LET start == 84 + 50 * (i - 1)
                 writes == stlBuffer.records[i].writes
             IN  /\ Len(writes) = 5
                 /\ writes[1] = [at |-> start, size |-> 12, what |-> "normal", of |-> mesh[i]]
                 /\ \A k \in 1..3 :
                      writes[1 + k] = [at |-> start + 12 * k, size |-> 12,
                                       what |-> "vertex", of |-> mesh[i][k]]
                 /\ writes[5] = [at |-> start + 48, size |-> 2, what |-> "attribute", of |-> 0]
                 /\ \A k \in 1..4 : writes[k].at + writes[k].size = writes[k + 1].at
                 /\ writes[5].at + writes[5].size = start + 50
                 /\ i < N => start + 50 = stlBuffer.records[i + 1].writes[1].at
        /\ stlBuffer.end = 84 + 50 * N
        /\ stlBuffer.end = stlBuffer.byteLength

\* a buffer of at least two triangles
C24_Witness ==
  /\ Generated
  /\ Len(mesh) >= 2
  /\ stlBuffer.countField.bytes = <<Len(mesh), 0, 0, 0>>
  /\ stlBuffer.records[2].writes[1].at = 134

(***************************************************************************)
(* Claims about the profile of the dome                                    *)
(***************************************************************************)
\* the outer radius of the dome at ring k of its domeSteps rings
domeRadiusAt(k) ==
  interpolateRadius(outerRadiusOf(params), domeOuterTopRadiusOf(params), k, domeStepsOf(cutout))

\* C25: for every accepted parameter record the outer radius of the dome
\* never grows with the height: it is the outer radius of the wall at the
\* wall top and the opening radius plus the shell thickness at the dome
\* top, which is not larger than the outer radius of the wall; no triangle
\* of the outer dome has a higher corner farther from the axis than a
\* lower one
C25_DomeTapers ==
  (Called /\ cutout.rows >= 3 /\ cutout.columns >= 3 /\ Accepted(params))
    => /\ Returned
       /\ domeRadiusAt(0) = outerRadiusOf(params)
       /\ domeRadiusAt(domeStepsOf(cutout)) = openingRadiusOf(params) + domeShellThicknessOf(params)
       /\ domeRadiusAt(domeStepsOf(cutout)) <= outerRadiusOf(params)
       /\ \A step \in 0..(domeStepsOf(cutout) - 1) :
            /\ domeRadiusAt(step + 1) <= domeRadiusAt(step)
            /\ \A i \in 1..Len(outerDomeStep(cutout, params, step)) :
                 LET t == outerDomeStep(cutout, params, step)[i]
                 IN  /\ \E j \in 1..Len(outcome.triangles) : outcome.triangles[j] = t
                     /\ \A a \in corners(t) : \A b \in corners(t) :
                          a[3] < b[3] => b[1] <= a[1]

(***************************************************************************)
(* Claims about the edge statistics of the inspection tool                 *)
(***************************************************************************)
\* the edges the triangles of the file name, one per side
sideOf(t, k) == {t[k], t[(k % 3) + 1]}

FileEdges == {sideOf(mesh[i], k) : i \in 1..Len(mesh), k \in 1..3}

\* how many times the file names edge e: once per side of a triangle
References(e) ==
  Cardinality({side \in (1..Len(mesh)) \X (1..3) : sideOf(mesh[side[1]], side[2]) = e})

\* how many triangles of the file have edge e
TrianglesWith(e) ==
  Cardinality({i \in 1..Len(mesh) : \E k \in 1..3 : sideOf(mesh[i], k) = e})

NoRepeatedVertex ==
  \A i \in 1..Len(mesh) : Cardinality({mesh[i][1], mesh[i][2], mesh[i][3]}) = 3

\* the sum of n * histogram[n] over the counts n of ns
RECURSIVE Weighted(_, _)
Weighted(histogram, ns) ==
  IF ns = {} THEN 0
  ELSE LET n == CHOOSE m \in ns : TRUE
       IN  n * histogram[n] + Weighted(histogram, ns \ {n})

\* C26: readBinarySTL rejects a file whose length is not 84 + 50 * (count
\* field); otherwise openEdges is the number of distinct edges named
\* exactly once, overEdges the number named more than twice and
\* nonManifoldEdges their sum, so that both are zero exactly when every
\* edge is named exactly twice; the counts add up to 3 times the triangle
\* count.  An edge is named once per triangle that has it, unless a
\* triangle repeats a vertex and so names an edge on two of its sides.
C26_EdgeStatistics ==
  WasRead =>
    IF stlBuffer.byteLength # 84 + 50 * stlBuffer.triangleCount
      THEN readBack.stats.error # "ok"
      ELSE /\ readBack.stats.error = "ok"
           /\ readBack.stats.triangles = Len(mesh)
           /\ readBack.stats.edges = Cardinality(FileEdges)
           /\ readBack.stats.openEdges = Cardinality({e \in FileEdges : References(e) = 1})
           /\ readBack.stats.overEdges = Cardinality({e \in FileEdges : References(e) > 2})
           /\ readBack.stats.nonManifoldEdges
                = readBack.stats.openEdges + readBack.stats.overEdges
           /\ (readBack.stats.openEdges = 0 /\ readBack.stats.nonManifoldEdges = 0)
                <=> \A e \in FileEdges : References(e) = 2
           /\ Weighted(readBack.stats.countHistogram, DOMAIN readBack.stats.countHistogram)
                = 3 * readBack.stats.triangles
           /\ NoRepeatedVertex => \A e \in FileEdges : References(e) = TrianglesWith(e)

\* a file of three proper triangles read with one open edge, one edge named
\* three times and the others twice
C26_Witness ==
  /\ WasRead
  /\ readBack.stats.error = "ok"
  /\ Len(mesh) = 3
  /\ NoRepeatedVertex
  /\ readBack.stats.openEdges > 0
  /\ readBack.stats.overEdges > 0
  /\ \E e \in FileEdges : References(e) = 2

(***************************************************************************)
(* Claims about the states of the page                                     *)
(***************************************************************************)
\* C27: when no upload is loading any more, the picture of the page and the
\* mask made of it are those of the file selected last, the one
\* state.fileName names, whichever load finished last
C27_LatestUploadWins ==
  (loads = {} /\ state.image # NoImage)
    => /\ state.image = pictureOf(state.fileName)
       /\ state.mask # NoMask =>
            \E inputs \in InputValues :
              state.mask = runProcessing(pictureOf(state.fileName), inputs).mask

\* a step in which runProcessing ran on the picture of the page
ProcessingRun == LoadFinished \/ (TimerFires /\ state.image # NoImage)

\* C28: while the download button is shown the page holds a picture and the
\* mask that processing this picture gives; the button is hidden after
\* resetImageState, after a range input on a loaded picture and after a run
\* that failed, and the mask is null after a reset and after a failed run
C28_ButtonFollowsMask ==
  /\ [](downloadVisible =>
          /\ state.image # NoImage
          /\ state.mask # NoMask
          /\ state.mask = runProcessing(state.image, domInputs).mask)
  /\ [][UploadChange => ~downloadVisible' /\ state'.mask = NoMask]_vars
  /\ [][RangeInput /\ state.image # NoImage => ~downloadVisible']_vars
  /\ [][ProcessingRun /\ ~runProcessing(state'.image, domInputs).visible
          => ~downloadVisible' /\ state'.mask = NoMask]_vars

\* the button is shown again after a debounced run, with a threshold
\* brought back into its range by getProcessingParams
C28_Witness ==
  /\ downloadVisible
  /\ burst.runs > 0
  /\ domInputs.threshold = 255 * Scale

(***************************************************************************)
(* Claims about rejected pictures                                          *)
(***************************************************************************)
\* a run that got as far as the binary field
FieldMade(run) == "binary" \in DOMAIN run.result

\* the run was rejected with this message for a field of this kind
RejectedAs(run, message) ==
  /\ run.result.status = "thrown"
  /\ run.result.error = message

\* C30: of two runs on one picture, if the one at threshold t finds no solid
\* pixel then the one at a threshold t' <= t finds none either and is
\* rejected as all white too; if the one at t finds no non-solid pixel then
\* the one at t' >= t finds none either and is rejected as all black too
C30_RejectionPersists ==
  \A pair \in {<<previous, processed>>, <<processed, previous>>} :
    LET at == pair[1]
        other == pair[2]
    IN  (FieldMade(at) /\ FieldMade(other)) =>
          /\ (~HasSolid(at.result.binary) /\ other.call.threshold <= at.call.threshold)
               => /\ ~HasSolid(other.result.binary)
                  /\ RejectedAs(at, AllWhiteError)
                  /\ RejectedAs(other, AllWhiteError)
          /\ (~HasNonSolid(at.result.binary) /\ other.call.threshold >= at.call.threshold)
               => /\ ~HasNonSolid(other.result.binary)
                  /\ RejectedAs(at, AllBlackError)
                  /\ RejectedAs(other, AllBlackError)

\* a picture with green in it is rejected as all white at 128 and then at
\* 0, though at 255 its field has a solid pixel
C30_Witness ==
  /\ RejectedAs(previous, AllWhiteError)
  /\ RejectedAs(processed, AllWhiteError)
  /\ processed.call.threshold < previous.call.threshold
  /\ HasSolid(toBinary(image, 255 * Scale))

(***************************************************************************)
(* Claims about the download click                                         *)
(***************************************************************************)
\* C29: the record getGeometryParams makes of the values in the inputs is
\* accepted by validateGeometryParams, and no download click with a mask
\* present throws
C29_DownloadNeverThrows ==
  /\ Accepted(getGeometryParams(geometryInputs, domInputs))
  /\ outcome.status # "thrown"

====
